---------------------------- MODULE Spec2Model ----------------------------
(***************************************************************************)
(* A model of the boot orchestration engine of clr-boot-manager: the host  *)
(* inspector (sysconfig.c), the boot manager facade with its mount broker  *)
(* and bootloader selector (bootman.c) and the extlinux backend            *)
(* (extlinux.c).                                                           *)
(*                                                                         *)
(* Every C function is an operator over a "world" record W that holds the  *)
(* facade's fields, the extlinux module statics, the state of the host     *)
(* (mounts, files, directories) and the trace `ev` of the calls made so    *)
(* far by the running operation.  An operator that returns a value returns *)
(* [w |-> world after, r |-> value].  One action of a specification is one *)
(* whole call of a public operation.                                       *)
(*                                                                         *)
(* Allocation failures (strdup, calloc, malloc returning NULL) are outside *)
(* the model where the program treats them as fatal; the one extlinux_init *)
(* reports to its caller is an input of extlinux_init.                     *)
(***************************************************************************)
EXTENDS Integers, Sequences, FiniteSets, TLC

VARIABLES
    \* struct BootManager (the facade)
    bootloader,            \* name of the selected backend, or NULL
    sysconfig,             \* SystemConfig record; .valid = FALSE models a NULL pointer
    abs_bootdir,           \* boot directory override, or NULL
    image_mode,
    initrd_freestanding,   \* the hashmap, as the sequence of [key, val] in iteration order
    initrd_freestanding_dir, \* directory of the freestanding initrds, or NULL
    \* extlinux.c module statics
    kernel_queue,          \* [null |-> BOOLEAN, arr |-> sequence of kernels]
    extlinux_cmd,
    base_path,
    \* state of a backend whose source is not in extlinux.c (grub2, systemd class)
    gen_inited,
    \* the host
    host,                  \* what discovery and capability probes answer on this host
    mounts,                \* mount point -> device mounted there, or NULL
    files,                 \* boot directory -> content of its extlinux.cfg
    ldlinux,               \* the boot directories that hold ldlinux.sys
    dirs,                  \* the directories that exist
    mbr,                   \* what the first 440 bytes of the parent disk hold
    initrds,               \* the entries of the freestanding initrd directory
    bootfs,                \* directory under the boot directory -> its entries
    \* the process
    crashed,               \* a NULL dereference or failed assert ended the process
    \* observation of the last completed operation
    last,                  \* [op, arg, ret] of the last operation
    ev                     \* the calls it made, in order

vars == << bootloader, sysconfig, abs_bootdir, image_mode, initrd_freestanding,
           initrd_freestanding_dir, kernel_queue, extlinux_cmd, base_path,
           gen_inited, host, mounts, files, ldlinux, dirs, mbr, initrds, bootfs,
           crashed, last, ev >>

---------------------------------------------------------------------------
(* Values *)

NULL == "NULL"

\* Bounds of the model
MaxKernels == 2
MaxInitrds == 1

\* extlinux.c:34
CBM_MBR_SYSLINUX_SIZE == 440

\* Capability bits (bootloader.h); a mask is the set of its bits.
CAP_UEFI == "UEFI"
CAP_GPT == "GPT"
CAP_LEGACY == "LEGACY"
CAP_EXTFS == "EXTFS"
CAP_FATFS == "FATFS"
Caps == {CAP_UEFI, CAP_GPT, CAP_LEGACY, CAP_EXTFS, CAP_FATFS}

\* Operation bits of boot_manager_modify_bootloader; flags is the set of its bits.
OP_REMOVE == "REMOVE"
OP_INSTALL == "INSTALL"
OP_UPDATE == "UPDATE"
OP_NO_CHECK == "NO_CHECK"
OpBits == {OP_REMOVE, OP_INSTALL, OP_UPDATE, OP_NO_CHECK}
\* A bit of the int flags that is none of the four above
OP_UNKNOWN == "UNKNOWN"
FlagBits == OpBits \cup {OP_UNKNOWN}

BOOT_DIRECTORY == "/boot"
INITRD_DIRECTORY == "usr/lib/initrd.d"

\* The subdirectory of the boot partition a UEFI backend puts kernels in
KernelDst == "/EFI/org.k"

\* The directories freestanding initrds may land in: a boot directory, or
\* the kernel destination under it
TargetDirs ==
    {"/boot", "/boot" \o KernelDst, "/mnt/esp", "/mnt/esp" \o KernelDst}

\* The name of the i-th freestanding initrd, and the key enumeration gives it
InitrdName(i) == "fs" \o ToString(i) \o ".img"
FreestandingKey(name) == "freestanding-" \o name

\* The names an entry of the freestanding initrd directory may have, and
\* those an entry of a target directory may have: the keys, an initrd of an
\* earlier enumeration, and a kernel.
SrcNames == { InitrdName(i) : i \in 1..MaxInitrds }
BaseNames == SrcNames \cup {"old.img"}
TgtNames == { FreestandingKey(n) : n \in BaseNames } \cup {"kernel-1"}

\* An entry of a directory is [kind, data]: kind is "none" (no such entry),
\* "reg", "dir" or "broken" (lstat fails on it), data the content of a regular
\* file, 0 for an empty one.  A directory is absent, or holds its entries.
Absent == [kind |-> "none", data |-> 0]
RegularFile(data) == [kind |-> "reg", data |-> data]
NoDir(names) == [exists |-> FALSE, ents |-> [n \in names |-> Absent]]
EmptyDir(names) == [exists |-> TRUE, ents |-> [n \in names |-> Absent]]

\* A Kernel record; NullKernel stands for a NULL Kernel pointer.
KernelOf(i) ==
    [ ktype |-> "native", version |-> "4.1", release |-> i * 10,
      bpath |-> "org.k." \o ToString(i),
      cmdline |-> "cmdline" \o ToString(i),
      source_path |-> "/usr/lib/kernel/k" \o ToString(i),
      legacy_path |-> "kernel-" \o ToString(i),
      initrd_path |-> IF i % 2 = 0 THEN "initrd-" \o ToString(i) ELSE NULL ]

NullKernel ==
    [ ktype |-> NULL, version |-> NULL, release |-> 0, bpath |-> NULL,
      cmdline |-> NULL, source_path |-> NULL, legacy_path |-> NULL,
      initrd_path |-> NULL ]

\* The caller's record of an installed kernel: same (ktype, version, release),
\* another source.path.
AltSource(k) == [k EXCEPT !.source_path = @ \o ".alt"]

\* Another kernel type at the same release.
SameRelease(k) ==
    [k EXCEPT !.ktype = "lts", !.bpath = @ \o ".lts",
              !.source_path = @ \o ".lts", !.legacy_path = @ \o ".lts"]

Kernels == { KernelOf(i) : i \in 1..MaxKernels }

\* The record of the same kernel file enumerated again after the cmdline
\* files changed: same source.path, another cmdline.
Reenumerated(k) == [k EXCEPT !.cmdline = @ \o " quiet"]

\* The kernels handed to a backend
BackendKernels == Kernels \cup {Reenumerated(KernelOf(1))}

\* CbmDeviceProbe records; .ok = FALSE models a NULL pointer.
NullProbe == [ok |-> FALSE, uuid |-> NULL, part_uuid |-> NULL, luks_uuid |-> NULL]
ProbeUuid == [ok |-> TRUE, uuid |-> "UUID1", part_uuid |-> NULL, luks_uuid |-> NULL]
ProbePart == [ok |-> TRUE, uuid |-> "UUID1", part_uuid |-> "ABC", luks_uuid |-> "LUKS1"]

NullConfig ==
    [ valid |-> FALSE, prefix |-> NULL, boot_device |-> NULL,
      root_device |-> NullProbe, wanted_boot_mask |-> {} ]

NullQueue == [null |-> TRUE, arr |-> << >>]

\* The content of a file: absent, or its lines.
NoFile == [exists |-> FALSE, text |-> << >>]
Partial == [exists |-> TRUE, text |-> << "<partial>" >>]
FileOf(lines) == [exists |-> TRUE, text |-> lines]

\* The freestanding initrd map holding the files 1..n.
InitrdMap(n) ==
    [ i \in 1..n |-> [ key |-> "freestanding-fs" \o ToString(i) \o ".img",
                       val |-> "fs" \o ToString(i) \o ".img" ] ]

---------------------------------------------------------------------------
(* The world record *)

World ==
    [ bootloader |-> bootloader, sysconfig |-> sysconfig,
      abs_bootdir |-> abs_bootdir, image_mode |-> image_mode,
      initrd_freestanding |-> initrd_freestanding,
      initrd_freestanding_dir |-> initrd_freestanding_dir,
      initrds |-> initrds, bootfs |-> bootfs,
      kernel_queue |-> kernel_queue, extlinux_cmd |-> extlinux_cmd,
      base_path |-> base_path, gen_inited |-> gen_inited,
      host |-> host, mounts |-> mounts, files |-> files, ldlinux |-> ldlinux,
      dirs |-> dirs, mbr |-> mbr, crashed |-> crashed, ev |-> << >> ]

\* The operation `op` with argument `arg` returned `ret`, leaving the world W.
Commit(W, op, arg, ret) ==
    \E o \in { [w |-> W, r |-> ret] } :
       /\ bootloader' = o.w.bootloader
       /\ sysconfig' = o.w.sysconfig
       /\ abs_bootdir' = o.w.abs_bootdir
       /\ image_mode' = o.w.image_mode
       /\ initrd_freestanding' = o.w.initrd_freestanding
       /\ initrd_freestanding_dir' = o.w.initrd_freestanding_dir
       /\ initrds' = o.w.initrds
       /\ bootfs' = o.w.bootfs
       /\ kernel_queue' = o.w.kernel_queue
       /\ extlinux_cmd' = o.w.extlinux_cmd
       /\ base_path' = o.w.base_path
       /\ gen_inited' = o.w.gen_inited
       /\ host' = o.w.host
       /\ mounts' = o.w.mounts
       /\ files' = o.w.files
       /\ ldlinux' = o.w.ldlinux
       /\ dirs' = o.w.dirs
       /\ mbr' = o.w.mbr
       /\ crashed' = o.w.crashed
       /\ ev' = o.w.ev
       /\ last' = [op |-> op, arg |-> arg, ret |-> o.r]

Emit(W, name, arg) == [W EXCEPT !.ev = Append(@, [e |-> name, a |-> arg])]

Crash(W) == [W EXCEPT !.crashed = TRUE]

Ret(W, r) == [w |-> W, r |-> r]

\* The value of F at x, with x computed once: the result of a call is held
\* in a local of the caller.
Bind(x, F(_)) == CHOOSE y \in { F(v) : v \in {x} } : TRUE

\* The number of events of trace t named n
RECURSIVE Count(_, _)
Count(t, n) ==
    IF t = << >> THEN 0
    ELSE (IF Head(t).e = n THEN 1 ELSE 0) + Count(Tail(t), n)

\* The positions of the events of trace t named n
Positions(t, n) == { i \in 1..Len(t) : t[i].e = n }


---------------------------------------------------------------------------
(* Path helpers of the C library, over the paths of the model *)

\* The canonical form of a path: double slashes removed.
Canonical(p) == IF p = "//boot" THEN "/boot" ELSE p

\* realpath(3) of a directory: its canonical form when it exists, else NULL.
realpath(W, p) == IF Canonical(p) \in W.dirs THEN Canonical(p) ELSE NULL

\* realpath(3) of a block device node: discovery hands out by-partuuid links.
RealDevice(W, dev) ==
    IF ~W.host.dev_resolves THEN NULL
    ELSE IF dev = "/dev/disk/by-partuuid/esp" THEN "/dev/sda1"
    ELSE IF dev = "/dev/disk/by-partuuid/legacy" THEN "/dev/sda2"
    ELSE dev

---------------------------------------------------------------------------
(* sysconfig.c *)

\* The mutant of cbm_get_fstype that reports FATFS for every unknown type.
cbm_get_fstype_AllFat(W) ==
    IF W.host.fstype = NULL \/ ~W.host.dev_resolves
    THEN Ret(Crash(Emit(W, "cbm_get_fstype", NULL)), {})
    ELSE Ret(Emit(W, "cbm_get_fstype", W.host.fstype),
             IF W.host.fstype \in {"ext2", "ext3", "ext4"} THEN {CAP_EXTFS}
             ELSE {CAP_FATFS})

\* cbm_get_fstype: the capability bit of the probed filesystem type; a failed
\* probe exits the process, and the probe of a device node that does not
\* resolve cannot be opened.
cbm_get_fstype(W) ==
    IF W.host.fstype = NULL \/ ~W.host.dev_resolves
    THEN Ret(Crash(Emit(W, "cbm_get_fstype", NULL)), {})
    ELSE Ret(Emit(W, "cbm_get_fstype", W.host.fstype),
             IF W.host.fstype \in {"ext2", "ext3", "ext4"} THEN {CAP_EXTFS}
             ELSE IF W.host.fstype = "vfat" THEN {CAP_FATFS}
             ELSE {})

\* cbm_inspect_root from the label refine_device to the probe of the root device.
RefineDevice(W, c) ==
    IF c.boot_device = NULL THEN Ret(W, c)
    ELSE LET rel == RealDevice(W, c.boot_device)
             c1 == IF rel = NULL THEN c ELSE [c EXCEPT !.boot_device = rel]
             c2 == [c1 EXCEPT !.wanted_boot_mask = @ \cup {CAP_GPT}]
             fs == cbm_get_fstype(W)
         IN  Ret(fs.w, [c2 EXCEPT !.wanted_boot_mask = @ \cup fs.r])

\* The mutant of DiscoverBoot that probes for a legacy device on native UEFI too.
DiscoverBoot_AlwaysLegacy(W, im) ==
    LET W1 == IF ~im THEN Emit(W, "nc_file_exists", "firmware/efi") ELSE W
        native_uefi == IF ~im THEN W.host.sysfs_efi ELSE FALSE
        W2 == Emit(W1, "get_legacy_boot_device", NULL)
        boot == W.host.legacy_dev
    IN  IF boot # NULL
        THEN Ret(W2, [boot_device |-> boot, mask |-> {CAP_LEGACY, CAP_GPT}])
        ELSE Ret(W2, [boot_device |-> NULL,
                      mask |-> IF native_uefi THEN {CAP_UEFI} ELSE {CAP_LEGACY}])

\* The mutant of DiscoverBoot that looks for the ESP in image mode too.
DiscoverBoot_EspInImage(W, im) ==
    LET W1 == IF ~im THEN Emit(W, "nc_file_exists", "firmware/efi") ELSE W
        native_uefi == IF ~im THEN W.host.sysfs_efi ELSE FALSE
        probe_legacy == ~native_uefi \/ im
        W2 == IF probe_legacy THEN Emit(W1, "get_legacy_boot_device", NULL) ELSE W1
        boot == IF probe_legacy THEN W.host.legacy_dev ELSE NULL
    IN  IF boot # NULL
        THEN Ret(W2, [boot_device |-> boot, mask |-> {CAP_LEGACY, CAP_GPT}])
        ELSE LET W3 == Emit(W2, "get_boot_device", NULL)
                 esp == W.host.esp_dev
             IN  IF esp # NULL
                 THEN Ret(W3, [boot_device |-> esp, mask |-> {CAP_UEFI, CAP_GPT}])
                 ELSE Ret(W3, [boot_device |-> NULL,
                               mask |-> IF ~im
                                        THEN (IF native_uefi THEN {CAP_UEFI}
                                              ELSE {CAP_LEGACY})
                                        ELSE {CAP_UEFI}])

\* cbm_inspect_root from the firmware check to the label refine_device: the
\* boot device found, if any, and the mask before refinement.
DiscoverBoot(W, im) ==
    LET W1 == IF ~im THEN Emit(W, "nc_file_exists", "firmware/efi") ELSE W
        native_uefi == IF ~im THEN W.host.sysfs_efi ELSE FALSE
        probe_legacy == ~native_uefi \/ im
        W2 == IF probe_legacy THEN Emit(W1, "get_legacy_boot_device", NULL) ELSE W1
        boot == IF probe_legacy THEN W.host.legacy_dev ELSE NULL
    IN  IF boot # NULL
        THEN Ret(W2, [boot_device |-> boot, mask |-> {CAP_LEGACY, CAP_GPT}])
        ELSE LET W3 == IF ~im THEN Emit(W2, "get_boot_device", NULL) ELSE W2
                 esp == IF ~im THEN W.host.esp_dev ELSE NULL
             IN  IF esp # NULL
                 THEN Ret(W3, [boot_device |-> esp, mask |-> {CAP_UEFI, CAP_GPT}])
                 ELSE Ret(W3, [boot_device |-> NULL,
                               mask |-> IF ~im
                                        THEN (IF native_uefi THEN {CAP_UEFI}
                                              ELSE {CAP_LEGACY})
                                        ELSE {CAP_UEFI}])

\* cbm_inspect_root: the SystemConfig of the prefix `path`, or NullConfig.
\* When cbm_get_fstype exits the process, the root device is not probed and
\* no SystemConfig comes back.
cbm_inspect_root(W, path, im) ==
    IF path = NULL THEN Ret(W, NullConfig)
    ELSE LET realp == realpath(W, path) IN
         IF realp = NULL THEN Ret(W, NullConfig)
         ELSE LET d == DiscoverBoot(W, im)
                  c == [ valid |-> TRUE, prefix |-> realp,
                         boot_device |-> d.r.boot_device,
                         root_device |-> NullProbe,
                         wanted_boot_mask |-> d.r.mask ]
                  f == RefineDevice(d.w, c)
                  W4 == Emit(f.w, "cbm_probe_path", realp)
              IN  IF f.w.crashed THEN Ret(f.w, NullConfig)
                  ELSE Ret(W4, [f.r EXCEPT !.root_device = W.host.root_probe])

\* cbm_is_sysconfig_sane
cbm_is_sysconfig_sane(config) ==
    IF ~config.valid THEN FALSE
    ELSE IF ~config.root_device.ok THEN FALSE
    ELSE TRUE

---------------------------------------------------------------------------
(* bootman.c: accessors used by the backends *)

\* boot_manager_get_boot_dir: the override, else prefix + BOOT_DIRECTORY resolved
\* through realpath, else the unresolved concatenation.  assert(sysconfig).
boot_manager_get_boot_dir(W) ==
    IF ~W.sysconfig.valid THEN Ret(Crash(W), NULL)
    ELSE IF W.abs_bootdir # NULL THEN Ret(W, W.abs_bootdir)
    ELSE LET ret == W.sysconfig.prefix \o BOOT_DIRECTORY
             realp == realpath(W, ret)
         IN  IF realp # NULL THEN Ret(W, realp) ELSE Ret(W, ret)

\* boot_manager_get_prefix: dereferences sysconfig.
boot_manager_get_prefix(W) ==
    IF ~W.sysconfig.valid THEN Ret(Crash(W), NULL)
    ELSE Ret(W, W.sysconfig.prefix)

\* boot_manager_get_root_device: assert(sysconfig).
boot_manager_get_root_device(W) ==
    IF ~W.sysconfig.valid THEN Ret(Crash(W), NullProbe)
    ELSE Ret(W, W.sysconfig.root_device)

\* The mutant of InitrdIteration that yields the values of the map.
InitrdIteration_Values(W) ==
    [ i \in 1..Len(W.initrd_freestanding) |-> W.initrd_freestanding[i].val ]

\* boot_manager_initrd_iterator_init / _next: the keys of the map, in
\* iteration order.
InitrdIteration(W) ==
    [ i \in 1..Len(W.initrd_freestanding) |-> W.initrd_freestanding[i].key ]

---------------------------------------------------------------------------
(* extlinux.c *)

\* The file helpers, on the extlinux.cfg of a boot directory.
file_get_text(W, dir) ==
    IF Canonical(dir) \in W.dirs THEN W.files[Canonical(dir)] ELSE NoFile

\* free(p), followed by the assignment the code makes to p: a "free" event
\* for each pointer that held an allocation.
Free(W, held, name) == IF held THEN Emit(W, "free", name) ELSE W

\* The mutant of extlinux_init that never looks for ldlinux.sys.
extlinux_init_AlwaysFirstInstall(W, in) ==
    LET W0 == Emit(W, "init", "extlinux")
        W1 == [Free(W0, ~W0.kernel_queue.null, "kernel_queue")
                 EXCEPT !.kernel_queue = [null |-> FALSE, arr |-> << >>]]
        Wb == [Free(W1, W1.base_path # NULL, "base_path") EXCEPT !.base_path = NULL]
        bd == boot_manager_get_boot_dir(Wb)
    IN  IF bd.w.crashed THEN Ret(bd.w, FALSE)
        ELSE IF ~in.alloc_ok THEN Ret(bd.w, FALSE)
        ELSE LET W2 == [Free(bd.w, bd.w.extlinux_cmd # NULL, "extlinux_cmd")
                          EXCEPT !.base_path = bd.r, !.extlinux_cmd = NULL]
                 prefix == W2.sysconfig.prefix
                 flag == " -i "
             IN  Ret([W2 EXCEPT !.extlinux_cmd =
                          prefix \o "/usr/bin/extlinux" \o flag \o bd.r
                                 \o " &> /dev/null"],
                     TRUE)

\* extlinux_init.  in.alloc_ok is FALSE when boot_manager_get_boot_dir cannot
\* allocate the path (OOM_CHECK_RET at line 58).
extlinux_init(W, in) ==
    LET W0 == Emit(W, "init", "extlinux")
        W1 == [Free(W0, ~W0.kernel_queue.null, "kernel_queue")
                 EXCEPT !.kernel_queue = [null |-> FALSE, arr |-> << >>]]
        Wb == [Free(W1, W1.base_path # NULL, "base_path") EXCEPT !.base_path = NULL]
        bd == boot_manager_get_boot_dir(Wb)
    IN  IF bd.w.crashed THEN Ret(bd.w, FALSE)
        ELSE IF ~in.alloc_ok THEN Ret(bd.w, FALSE)
        ELSE LET W2 == [Free(bd.w, bd.w.extlinux_cmd # NULL, "extlinux_cmd")
                          EXCEPT !.base_path = bd.r, !.extlinux_cmd = NULL]
                 prefix == W2.sysconfig.prefix
                 flag == IF Canonical(bd.r) \in W2.ldlinux THEN " -U " ELSE " -i "
             IN  Ret([W2 EXCEPT !.extlinux_cmd =
                          prefix \o "/usr/bin/extlinux" \o flag \o bd.r
                                 \o " &> /dev/null"],
                     TRUE)

\* The mutant of extlinux_install_kernel that queues without looking for the
\* kernel in the queue.
extlinux_install_kernel_NoDedup(W, kernel) ==
    IF W.kernel_queue.null THEN Ret(Crash(W), FALSE)
    ELSE Ret([W EXCEPT !.kernel_queue.arr = Append(@, kernel)], TRUE)

\* extlinux_install_kernel: queue the kernel unless one of its source.path is
\* queued.  kernel_queue->len dereferences the queue.
extlinux_install_kernel(W, kernel) ==
    IF W.kernel_queue.null THEN Ret(Crash(W), FALSE)
    ELSE IF \E i \in 1..Len(W.kernel_queue.arr) :
                W.kernel_queue.arr[i].source_path = kernel.source_path
         THEN Ret(W, TRUE)
         ELSE Ret([W EXCEPT !.kernel_queue.arr = Append(@, kernel)], TRUE)

\* The mutant of extlinux_remove_kernel that takes the kernel off the queue.
extlinux_remove_kernel_Dequeues(W, kernel) ==
    Ret([W EXCEPT !.kernel_queue.arr =
            SelectSeq(@, LAMBDA k : k.source_path # kernel.source_path)], TRUE)

\* extlinux_remove_kernel
extlinux_remove_kernel(W, kernel) == Ret(W, TRUE)

\* The csv of initrd paths built by string_printf("%s,%s", ...), as its pieces.
RECURSIVE CsvAppend(_, _)
CsvAppend(paths, names) ==
    IF names = << >> THEN paths
    ELSE CsvAppend(paths \o << ",", Head(names) >>, Tail(names))

\* A string from its pieces
RECURSIVE Join(_)
Join(pieces) == IF pieces = << >> THEN "" ELSE Head(pieces) \o Join(Tail(pieces))

\* The mutant of Stanza that writes DEFAULT after the LABEL line.
Stanza_DefaultAfterLabel(W, k, default_kernel, root_dev) ==
    LET own == IF k.initrd_path # NULL THEN CsvAppend(<< >>, << k.initrd_path >>)
               ELSE << >>
        initrd_paths == CsvAppend(own, InitrdIteration(W))
    IN  << "LABEL " \o k.legacy_path >>
        \o (IF default_kernel # NullKernel
               /\ k.source_path = default_kernel.source_path
            THEN << "DEFAULT " \o k.legacy_path >> ELSE << >>)
        \o << "  KERNEL " \o k.legacy_path >>
        \o (IF initrd_paths # << >>
            THEN << "  INITRD " \o Join(Tail(initrd_paths)) >> ELSE << >>)
        \o << "APPEND "
              \o (IF root_dev.part_uuid # NULL
                  THEN "root=PARTUUID=" \o root_dev.part_uuid \o " "
                  ELSE "root=UUID=" \o root_dev.uuid \o " ")
              \o (IF root_dev.luks_uuid # NULL
                  THEN "rd.luks.uuid=" \o root_dev.luks_uuid \o " " ELSE "")
              \o k.cmdline >>

\* extlinux_set_default_kernel, the body of the loop: the lines written for
\* the queued kernel k.
Stanza(W, k, default_kernel, root_dev) ==
    LET own == IF k.initrd_path # NULL THEN CsvAppend(<< >>, << k.initrd_path >>)
               ELSE << >>
        initrd_paths == CsvAppend(own, InitrdIteration(W))
    IN  (IF default_kernel # NullKernel
            /\ k.source_path = default_kernel.source_path
         THEN << "DEFAULT " \o k.legacy_path >> ELSE << >>)
        \o << "LABEL " \o k.legacy_path >>
        \o << "  KERNEL " \o k.legacy_path >>
        \o (IF initrd_paths # << >>
            THEN << "  INITRD " \o Join(Tail(initrd_paths)) >> ELSE << >>)
        \o << "APPEND "
              \o (IF root_dev.part_uuid # NULL
                  THEN "root=PARTUUID=" \o root_dev.part_uuid \o " "
                  ELSE "root=UUID=" \o root_dev.uuid \o " ")
              \o (IF root_dev.luks_uuid # NULL
                  THEN "rd.luks.uuid=" \o root_dev.luks_uuid \o " " ELSE "")
              \o k.cmdline >>

\* The mutant of Stanzas that emits the last queued kernel first.
RECURSIVE Stanzas_Reversed(_, _, _, _)
Stanzas_Reversed(W, queue, default_kernel, root_dev) ==
    IF queue = << >> THEN << >>
    ELSE Stanzas_Reversed(W, Tail(queue), default_kernel, root_dev)
         \o Stanza(W, Head(queue), default_kernel, root_dev)

RECURSIVE Stanzas(_, _, _, _)
Stanzas(W, queue, default_kernel, root_dev) ==
    IF queue = << >> THEN << >>
    ELSE Stanza(W, Head(queue), default_kernel, root_dev)
         \o Stanzas(W, Tail(queue), default_kernel, root_dev)

\* The mutant of Synthesize that writes the timeout whatever the default.
Synthesize_TimeoutAlways(W, default_kernel, root_dev) ==
    << "TIMEOUT 100" >> \o Stanzas(W, W.kernel_queue.arr, default_kernel, root_dev)

\* extlinux_set_default_kernel, lines 131-185: the text in the writer's buffer,
\* as its lines.
Synthesize(W, default_kernel, root_dev) ==
    (IF default_kernel = NullKernel THEN << "TIMEOUT 100" >> ELSE << >>)
    \o Stanzas(W, W.kernel_queue.arr, default_kernel, root_dev)

\* file_set_text on the extlinux.cfg of dir: in.write_ok says whether the host
\* lets the write succeed; a failed write leaves the file as in.fail_state says.
file_set_text(W, dir, text, in) ==
    LET d == Canonical(dir) IN
    IF d \notin W.dirs THEN Ret(Emit(W, "file_set_text", FALSE), FALSE)
    ELSE IF in.write_ok
         THEN Ret(Emit([W EXCEPT !.files[d] = FileOf(text)], "file_set_text", TRUE),
                  TRUE)
         ELSE Ret(Emit([W EXCEPT !.files[d] =
                           IF in.fail_state = "removed" THEN NoFile
                           ELSE IF in.fail_state = "partial" THEN Partial
                           ELSE @],
                       "file_set_text", FALSE),
                  FALSE)

\* The mutant of WriteIfChanged that always writes.
WriteIfChanged_Always(W, dir, text, in) ==
    LET wr == file_set_text(W, dir, text, in) IN
    IF ~wr.r THEN Ret(wr.w, FALSE)
    ELSE Ret(Emit(wr.w, "sync", NULL), TRUE)

\* The mutant of WriteIfChanged that syncs before it looks at the result of
\* the write.
WriteIfChanged_SyncFirst(W, dir, text, in) ==
    LET old_conf == file_get_text(W, dir) IN
    IF old_conf.exists /\ old_conf.text = text THEN Ret(W, TRUE)
    ELSE LET wr == file_set_text(W, dir, text, in)
             W1 == Emit(wr.w, "sync", NULL)
         IN  Ret(W1, wr.r)

\* extlinux_set_default_kernel, lines 192-208: skip the write when the file
\* holds the text already, else write and sync.
WriteIfChanged(W, dir, text, in) ==
    LET old_conf == file_get_text(W, dir) IN
    IF old_conf.exists /\ old_conf.text = text THEN Ret(W, TRUE)
    ELSE LET wr == file_set_text(W, dir, text, in) IN
         IF ~wr.r THEN Ret(wr.w, FALSE)
         ELSE Ret(Emit(wr.w, "sync", NULL), TRUE)

\* extlinux_set_default_kernel.  kernel_queue->len dereferences the queue.
extlinux_set_default_kernel(W, default_kernel, in) ==
    LET W0 == Emit(W, "set_default_kernel", default_kernel)
        rd == boot_manager_get_root_device(W0)
    IN  IF rd.w.crashed THEN Ret(rd.w, FALSE)
        ELSE IF ~rd.r.ok THEN Ret(rd.w, FALSE)
        ELSE IF W0.kernel_queue.null THEN Ret(Crash(W0), FALSE)
        ELSE LET text == Synthesize(W0, default_kernel, rd.r)
                 W1 == Emit(W0, "synthesized", text)
             IN  WriteIfChanged(W1, W1.base_path, text, in)

\* extlinux_get_default_kernel
extlinux_get_default_kernel(W) == Ret(Emit(W, "get_default_kernel", NULL), NULL)

\* extlinux_needs_update, extlinux_needs_install
extlinux_needs_update(W) == TRUE
extlinux_needs_install(W) == TRUE

\* The boot directory an installer command names: extlinux_init builds the
\* command from the prefix, the flag and the boot directory, and system(3)
\* is given nothing else.
CommandDir(cmd) ==
    LET named == { d \in {"/boot", "//boot", "/mnt/esp"} :
                     \E flag \in {" -i ", " -U "} :
                        cmd = "/" \o "/usr/bin/extlinux" \o flag \o d \o " &> /dev/null" }
    IN  IF named = {} THEN NULL ELSE CHOOSE d \in named : TRUE

\* The mutant of CloseBoth that leaves the descriptor of gptmbr.bin open.
CloseBoth_LeakSource(W) == Emit(W, "close", "disk")

\* extlinux_install, lines 251-252 and 255-256: close(mbr); close(extlinux_mbr).
CloseBoth(W) == Emit(Emit(W, "close", "disk"), "close", "gptmbr")

\* The mutant of extlinux_install that syncs although the installer command
\* failed.
extlinux_install_SyncOnFailure(W, in) ==
    LET pf == boot_manager_get_prefix(W) IN
    IF pf.w.crashed THEN Ret(pf.w, FALSE)
    ELSE LET disk_ok == W.host.parent_disk # NULL /\ in.open_disk_ok
             W1 == Emit(W, "open", [file |-> "disk", ok |-> disk_ok]) IN
         IF ~disk_ok THEN Ret(W1, FALSE)
         ELSE LET W2 == Emit(W1, "open", [file |-> "gptmbr", ok |-> in.open_mbr_ok]) IN
              IF ~in.open_mbr_ok THEN Ret(Emit(W2, "close", "disk"), FALSE)
              ELSE LET W3 == Emit([W2 EXCEPT !.mbr = IF in.count > 0 THEN in.count
                                                     ELSE @],
                                  "sendfile", in.count)
                       W4 == CloseBoth(W3)
                       W5 == Emit(W4, "system", W4.extlinux_cmd)
                   IN  IF in.count # CBM_MBR_SYSLINUX_SIZE THEN Ret(W4, FALSE)
                       ELSE Ret(Emit(W5, "sync", NULL),
                                W4.extlinux_cmd # NULL /\ in.sys_rc = 0)

\* extlinux_install: copy the MBR code, run the installer command, sync.
\* in.open_disk_ok, in.open_mbr_ok, in.count and in.sys_rc are what open(2),
\* sendfile(2) and system(3) answer.  system(NULL) reports a shell, non-zero.
extlinux_install(W, in) ==
    LET pf == boot_manager_get_prefix(W) IN
    IF pf.w.crashed THEN Ret(pf.w, FALSE)
    ELSE LET disk_ok == W.host.parent_disk # NULL /\ in.open_disk_ok
             W1 == Emit(W, "open", [file |-> "disk", ok |-> disk_ok]) IN
         IF ~disk_ok THEN Ret(W1, FALSE)
         ELSE LET W2 == Emit(W1, "open", [file |-> "gptmbr", ok |-> in.open_mbr_ok]) IN
              IF ~in.open_mbr_ok THEN Ret(Emit(W2, "close", "disk"), FALSE)
              ELSE LET W3 == Emit([W2 EXCEPT !.mbr = IF in.count > 0 THEN in.count
                                                     ELSE @],
                                  "sendfile", in.count)
                       W4 == CloseBoth(W3)
                       W5 == Emit(W4, "system", W4.extlinux_cmd)
                   IN  IF in.count # CBM_MBR_SYSLINUX_SIZE THEN Ret(W4, FALSE)
                       ELSE IF W4.extlinux_cmd = NULL \/ in.sys_rc # 0
                       THEN Ret(W5, FALSE)
                       ELSE Ret(Emit([W5 EXCEPT !.ldlinux =
                                         IF Canonical(CommandDir(W5.extlinux_cmd)) \in W5.dirs
                                         THEN @ \cup {Canonical(CommandDir(W5.extlinux_cmd))}
                                         ELSE @],
                                     "sync", NULL),
                                TRUE)

\* extlinux_update
extlinux_update(W, in) == extlinux_install(W, in)

\* extlinux_remove
extlinux_remove(W) == Ret(W, TRUE)

\* The mutant of extlinux_destroy that keeps the cached command.
extlinux_destroy_KeepsCommand(W) ==
    LET W0 == Emit(W, "destroy", "extlinux")
        W1 == [Free(W0, ~W0.kernel_queue.null, "kernel_queue") EXCEPT !.kernel_queue = NullQueue]
    IN  [Free(W1, W1.base_path # NULL, "base_path") EXCEPT !.base_path = NULL]

\* extlinux_destroy: each pointer that is set is freed and reset.
extlinux_destroy(W) ==
    LET W0 == Emit(W, "destroy", "extlinux")
        W1 == [Free(W0, ~W0.kernel_queue.null, "kernel_queue") EXCEPT !.kernel_queue = NullQueue]
        W2 == [Free(W1, W1.extlinux_cmd # NULL, "extlinux_cmd") EXCEPT !.extlinux_cmd = NULL]
    IN  [Free(W2, W2.base_path # NULL, "base_path") EXCEPT !.base_path = NULL]

\* extlinux_get_capabilities: access(prefix/usr/bin/extlinux, X_OK)
extlinux_get_capabilities(W) ==
    LET pf == boot_manager_get_prefix(W) IN
    IF pf.w.crashed THEN Ret(pf.w, {})
    ELSE IF ~W.host.extlinux_x THEN Ret(W, {})
    ELSE Ret(W, {CAP_GPT, CAP_LEGACY})

---------------------------------------------------------------------------
(* The backends whose source is not part of extlinux.c (grub2, the systemd *)
(* class), by the backend contract: each operation answers what the host   *)
(* lets it answer (the input record `in`).                                 *)

generic_init(W, in) ==
    Ret([Emit(W, "init", W.bootloader) EXCEPT !.gen_inited = in.init_ok], in.init_ok)

generic_destroy(W) == [Emit(W, "destroy", W.bootloader) EXCEPT !.gen_inited = FALSE]

generic_get_capabilities(W, name) == Ret(W, W.host.caps[name])

\* get_kernel_destination of the contract: a path under the boot partition,
\* or none.
generic_get_kernel_destination(W) == Ret(W, W.host.kernel_dst)

generic_action(W, name, arg, in) == Ret(Emit(W, name, arg), in.gen_ok)

generic_get_default_kernel(W, in) ==
    Ret(Emit(W, "get_default_kernel", NULL), in.gen_default)

---------------------------------------------------------------------------
(* The vtable: self->bootloader->op(self, ...).  Every caller in bootman.c  *)
(* has checked, or set, self->bootloader before it dispatches.             *)

bl_init(W, in) ==
    IF W.bootloader = "extlinux" THEN extlinux_init(W, in) ELSE generic_init(W, in)

bl_destroy(W) ==
    IF W.bootloader = "extlinux" THEN extlinux_destroy(W) ELSE generic_destroy(W)

bl_get_capabilities(W, name) ==
    IF name = "extlinux" THEN extlinux_get_capabilities(W)
    ELSE generic_get_capabilities(W, name)

bl_install_kernel(W, kernel, in) ==
    IF W.bootloader = "extlinux"
    THEN extlinux_install_kernel(Emit(W, "install_kernel", kernel), kernel)
    ELSE generic_action(W, "install_kernel", kernel, in)

bl_remove_kernel(W, kernel, in) ==
    IF W.bootloader = "extlinux"
    THEN extlinux_remove_kernel(Emit(W, "remove_kernel", kernel), kernel)
    ELSE generic_action(W, "remove_kernel", kernel, in)

bl_set_default_kernel(W, kernel, in) ==
    IF W.bootloader = "extlinux" THEN extlinux_set_default_kernel(W, kernel, in)
    ELSE generic_action(W, "set_default_kernel", kernel, in)

bl_get_default_kernel(W, in) ==
    IF W.bootloader = "extlinux" THEN extlinux_get_default_kernel(W)
    ELSE generic_get_default_kernel(W, in)

bl_needs_install(W, in) ==
    IF W.bootloader = "extlinux" THEN extlinux_needs_install(W) ELSE in.gen_needs

bl_needs_update(W, in) ==
    IF W.bootloader = "extlinux" THEN extlinux_needs_update(W) ELSE in.gen_needs

bl_install(W, in) ==
    IF W.bootloader = "extlinux" THEN extlinux_install(Emit(W, "install", NULL), in)
    ELSE generic_action(W, "install", NULL, in)

bl_update(W, in) ==
    IF W.bootloader = "extlinux" THEN extlinux_update(Emit(W, "update", NULL), in)
    ELSE generic_action(W, "update", NULL, in)

bl_remove(W, in) ==
    IF W.bootloader = "extlinux" THEN extlinux_remove(Emit(W, "remove", NULL))
    ELSE generic_action(W, "remove", NULL, in)

\* The backend holds the state its init creates.
BackendInitialized(W) ==
    IF W.bootloader = "extlinux" THEN ~W.kernel_queue.null ELSE W.gen_inited

---------------------------------------------------------------------------
(* bootman.c: the registry and the selector *)

\* bootman_known_loaders, in a build with HAVE_SYSTEMD_BOOT
bootman_known_loaders == << "grub2", "systemd", "extlinux" >>

\* The mutant of Matches that accepts any backend sharing a bit with the mask.
Matches_AnyBit(caps, wanted) == (caps \cap wanted) # {}

\* A backend of capabilities caps matches the mask wanted.
Matches(caps, wanted) == (caps \cap wanted) = wanted

\* boot_manager_select_bootloader, the loop over the registry from index i:
\* the first backend whose capabilities hold the wanted mask, else NULL.
RECURSIVE ScanLoaders(_, _, _)
ScanLoaders(W, i, wanted) ==
    IF i > Len(bootman_known_loaders) THEN Ret(W, NULL)
    ELSE LET l == bootman_known_loaders[i]
             c == bl_get_capabilities(W, l)
             W1 == Emit(c.w, "get_capabilities", [loader |-> l, caps |-> c.r])
         IN  IF c.w.crashed THEN Ret(c.w, NULL)
             ELSE IF Matches(c.r, wanted) THEN Ret(W1, l)
             ELSE ScanLoaders(W1, i + 1, wanted)

\* boot_manager_select_bootloader
boot_manager_select_bootloader(W, in) ==
    LET wanted_boot_mask == W.sysconfig.wanted_boot_mask
        sel == ScanLoaders(W, 1, wanted_boot_mask)
    IN  IF sel.w.crashed THEN Ret(sel.w, FALSE)
        ELSE IF sel.r = NULL THEN Ret(sel.w, FALSE)
        ELSE LET W1 == [sel.w EXCEPT !.bootloader = sel.r]
                 init == bl_init(W1, in)
             IN  IF init.w.crashed THEN Ret(init.w, FALSE)
                 ELSE IF ~init.r THEN Ret(bl_destroy(init.w), FALSE)
                 ELSE Ret(init.w, TRUE)

\* boot_manager_set_prefix.  The os-release and cmdline files of the prefix
\* are read by parsers outside the model.
boot_manager_set_prefix(W, prefix, in) ==
    IF prefix = NULL THEN Ret(W, FALSE)
    ELSE LET W1 == [W EXCEPT !.sysconfig = NullConfig]
             config == cbm_inspect_root(W1, prefix, W1.image_mode)
         IN  IF config.w.crashed THEN Ret(config.w, FALSE)
             ELSE IF ~config.r.valid THEN Ret(config.w, FALSE)
             ELSE LET W2 == [config.w EXCEPT
                               !.sysconfig = config.r,
                               !.initrd_freestanding_dir =
                                   config.r.prefix \o "/" \o INITRD_DIRECTORY]
                      W3 == IF W2.bootloader # NULL
                            THEN [bl_destroy(W2) EXCEPT !.bootloader = NULL]
                            ELSE W2
                  IN  boot_manager_select_bootloader(W3, in)

\* boot_manager_free: the backend is destroyed, and the sysconfig, the
\* directories, the map and the boot directory of the manager are freed.
\* The mounts and the files of the host stay as they are.
boot_manager_free(W) ==
    LET W1 == IF W.bootloader # NULL THEN bl_destroy(W) ELSE W
    IN  [W1 EXCEPT !.bootloader = NULL,
                   !.sysconfig = NullConfig,
                   !.initrd_freestanding_dir = NULL,
                   !.initrd_freestanding = << >>,
                   !.abs_bootdir = NULL]

---------------------------------------------------------------------------
(* bootman.c: the boot directory and the mount broker *)

\* boot_manager_set_boot_dir
boot_manager_set_boot_dir(W, bootdir, in) ==
    IF bootdir = NULL THEN Ret(W, FALSE)
    ELSE LET W1 == [W EXCEPT !.abs_bootdir = bootdir] IN
         IF W1.bootloader = NULL THEN Ret(W1, TRUE)
         ELSE Bind(bl_init(bl_destroy(W1), in), LAMBDA init :
              IF init.w.crashed THEN Ret(init.w, FALSE)
              ELSE IF ~init.r THEN Ret(bl_destroy(init.w), FALSE)
              ELSE Ret(init.w, TRUE))

\* cbm_system_is_mounted
cbm_system_is_mounted(W, dir) ==
    Ret(Emit(W, "is_mounted", dir),
        Canonical(dir) \in DOMAIN W.mounts /\ W.mounts[Canonical(dir)] # NULL)

\* cbm_system_get_mountpoint_for_device
cbm_system_get_mountpoint_for_device(W, dev) ==
    LET at == { d \in DOMAIN W.mounts : W.mounts[d] = dev } IN
    LET mountpoint == IF at = {} THEN NULL ELSE CHOOSE d \in at : TRUE IN
    Ret(Emit(W, "get_mountpoint_for_device", [dev |-> dev, mountpoint |-> mountpoint]),
        mountpoint)

\* cbm_system_mount of dev on dir: in.mount_ok says whether the host lets it.
cbm_system_mount(W, dev, dir, in) ==
    LET W1 == Emit(W, "mount", dir) IN
    IF in.mount_ok /\ Canonical(dir) \in DOMAIN W.mounts /\ Canonical(dir) \in W.dirs
    THEN Ret([W1 EXCEPT !.mounts[Canonical(dir)] = dev], 0)
    ELSE Ret(W1, -1)

\* cbm_system_umount
cbm_system_umount(W, dir, in) ==
    LET W1 == Emit(W, "umount", dir) IN
    IF in.umount_ok /\ Canonical(dir) \in DOMAIN W.mounts
       /\ W.mounts[Canonical(dir)] # NULL
    THEN Ret([W1 EXCEPT !.mounts[Canonical(dir)] = NULL], 0)
    ELSE Ret(W1, -1)

\* umount_boot
umount_boot(W, boot_dir, in) == cbm_system_umount(Emit(W, "umount_boot", boot_dir), boot_dir, in).w

\* The value mount_boot returns: ret, and *boot_directory.
MountRet(W, ret, dir) ==
    Ret(Emit(W, "mount_boot", [ret |-> ret, boot_directory |-> dir]),
        [ret |-> ret, boot_directory |-> dir])

\* mount_boot, lines 452-480: create the boot directory if missing, mount
\* the boot device there and re-initialise the backend under it.
MountNow(W, boot_dir, root_base, in) ==
    LET W1 == IF Canonical(boot_dir) \notin W.dirs
              THEN [W EXCEPT !.dirs = @ \cup {Canonical(boot_dir)},
                             !.bootfs[Canonical(boot_dir)].exists = TRUE]
              ELSE W
    IN  Bind(cbm_system_mount(W1, root_base, boot_dir, in), LAMBDA mt :
        IF mt.r < 0 THEN MountRet(mt.w, -1, NULL)
        ELSE Bind(boot_manager_set_boot_dir(mt.w, boot_dir, in), LAMBDA sb :
             IF sb.w.crashed \/ ~sb.r THEN MountRet(sb.w, -1, NULL)
             ELSE MountRet(sb.w, 1, boot_dir)))

\* The mutant of AdoptPremounted that mounts the boot device on the expected
\* boot directory although it is mounted elsewhere.
AdoptPremounted_Mounts(W, boot_dir, abs, in) ==
    MountNow(W, boot_dir, W.sysconfig.boot_device, in)

\* mount_boot, lines 436-450: the boot device is mounted at abs; use that.
AdoptPremounted(W, boot_dir, abs, in) ==
    Bind(boot_manager_set_boot_dir(W, abs, in), LAMBDA sb :
    IF sb.w.crashed \/ ~sb.r THEN MountRet(sb.w, -1, NULL)
    ELSE MountRet(sb.w, 0, boot_dir))

\* mount_boot: returns -1 for error, 0 for already mounted and 1 for mount
\* completed, with the path handed to the caller in *boot_directory.
mount_boot(W, in) ==
    Bind(boot_manager_get_boot_dir(W), LAMBDA bd :
    IF bd.w.crashed THEN Ret(bd.w, [ret |-> -1, boot_directory |-> NULL])
    ELSE Bind(cbm_system_is_mounted(bd.w, bd.r), LAMBDA im :
         LET boot_dir == bd.r
             root_base == im.w.sysconfig.boot_device
         IN  IF im.r THEN MountRet(im.w, 0, boot_dir)
             ELSE IF root_base = NULL THEN MountRet(im.w, -1, NULL)
             ELSE Bind(cbm_system_get_mountpoint_for_device(im.w, root_base),
                       LAMBDA mp :
                  IF mp.r # NULL
                  THEN AdoptPremounted(mp.w, boot_dir, mp.r, in)
                  ELSE MountNow(mp.w, boot_dir, root_base, in))))

---------------------------------------------------------------------------
(* bootman.c: the operations on kernels *)

\* boot_manager_install_kernel.  in.blob_ok is the result of the helper that
\* copies the kernel blob (boot_manager_install_kernel_internal).
boot_manager_install_kernel(W, kernel, in) ==
    IF kernel = NullKernel \/ W.bootloader = NULL THEN Ret(W, FALSE)
    ELSE IF ~cbm_is_sysconfig_sane(W.sysconfig) THEN Ret(W, FALSE)
    ELSE LET W1 == Emit(W, "install_kernel_internal", kernel) IN
         IF ~in.blob_ok THEN Ret(W1, FALSE)
         ELSE bl_install_kernel(W1, kernel, in)

\* boot_manager_remove_kernel
boot_manager_remove_kernel(W, kernel, in) ==
    IF kernel = NullKernel \/ W.bootloader = NULL THEN Ret(W, FALSE)
    ELSE IF ~cbm_is_sysconfig_sane(W.sysconfig) THEN Ret(W, FALSE)
    ELSE LET W1 == Emit(W, "remove_kernel_internal", kernel) IN
         IF ~in.blob_ok THEN Ret(W1, FALSE)
         ELSE bl_remove_kernel(W1, kernel, in)

\* The mutant of MountUnlessLegacy that asks the broker on legacy hosts too.
MountUnlessLegacy_Always(W, in) == mount_boot(W, in)

\* The two callers of mount_boot: legacy means /boot is on the / partition.
MountUnlessLegacy(W, in) ==
    IF CAP_LEGACY \in W.sysconfig.wanted_boot_mask
    THEN Ret(W, [ret |-> 0, boot_directory |-> NULL])
    ELSE mount_boot(W, in)

\* The mutant of UmountIfMounted that unmounts whenever a path came back.
UmountIfMounted_Always(W, did_mount, boot_dir, in) ==
    IF boot_dir # NULL THEN umount_boot(W, boot_dir, in) ELSE W

\* if (did_mount > 0) umount_boot(boot_dir)
UmountIfMounted(W, did_mount, boot_dir, in) ==
    IF did_mount > 0 THEN umount_boot(W, boot_dir, in) ELSE W

\* The mutant of FirstMatch that takes the first enumerated kernel.
FirstMatch_First(kernels, kernel) == IF Len(kernels) = 0 THEN 0 ELSE 1

\* boot_manager_set_default_kernel, the loop: the index of the first
\* enumerated kernel that matches by (ktype, version, release), or 0.
FirstMatch(kernels, kernel) ==
    LET hits == { i \in 1..Len(kernels) :
                    /\ kernel.ktype = kernels[i].ktype
                    /\ kernel.version = kernels[i].version
                    /\ kernel.release = kernels[i].release }
    IN  IF hits = {} THEN 0 ELSE CHOOSE i \in hits : \A j \in hits : i <= j

\* The mutant of boot_manager_set_default_kernel that goes on to the backend
\* although mount_boot failed.
boot_manager_set_default_kernel_IgnoresMountError(W, kernel, in) ==
    IF W.bootloader = NULL THEN Ret(W, FALSE)
    ELSE IF ~cbm_is_sysconfig_sane(W.sysconfig) THEN Ret(W, FALSE)
    ELSE LET W0 == Emit(W, "get_kernels", NULL) IN
         IF Len(in.kernels) = 0 THEN Ret(W0, FALSE)
         ELSE Bind(MountUnlessLegacy(W0, in), LAMBDA m :
              LET did_mount == m.r.ret
                  i == FirstMatch(in.kernels, kernel)
              IN  IF m.w.crashed THEN Ret(m.w, FALSE)
                  ELSE IF kernel = NullKernel THEN Ret(Crash(m.w), FALSE)
                  ELSE Bind(IF i # 0 THEN bl_set_default_kernel(m.w, kernel, in)
                            ELSE Ret(m.w, FALSE), LAMBDA sd :
                       IF sd.w.crashed THEN Ret(sd.w, FALSE)
                       ELSE Ret(UmountIfMounted(sd.w, did_mount,
                                                m.r.boot_directory, in),
                                sd.r)))

\* boot_manager_set_default_kernel.  in.kernels is the enumeration
\* boot_manager_get_kernels returns.  A NULL kernel is dereferenced by the loop.
boot_manager_set_default_kernel(W, kernel, in) ==
    IF W.bootloader = NULL THEN Ret(W, FALSE)
    ELSE IF ~cbm_is_sysconfig_sane(W.sysconfig) THEN Ret(W, FALSE)
    ELSE LET W0 == Emit(W, "get_kernels", NULL) IN
         IF Len(in.kernels) = 0 THEN Ret(W0, FALSE)
         ELSE Bind(MountUnlessLegacy(W0, in), LAMBDA m :
              LET did_mount == m.r.ret
                  i == FirstMatch(in.kernels, kernel)
              IN  IF m.w.crashed THEN Ret(m.w, FALSE)
                  ELSE IF did_mount < 0 THEN Ret(m.w, FALSE)
                  ELSE IF kernel = NullKernel THEN Ret(Crash(m.w), FALSE)
                  ELSE Bind(IF i # 0 THEN bl_set_default_kernel(m.w, kernel, in)
                            ELSE Ret(m.w, FALSE), LAMBDA sd :
                       IF sd.w.crashed THEN Ret(sd.w, FALSE)
                       ELSE Ret(UmountIfMounted(sd.w, did_mount,
                                                m.r.boot_directory, in),
                                sd.r)))

\* boot_manager_get_default_kernel
boot_manager_get_default_kernel(W, in) ==
    IF W.bootloader = NULL THEN Ret(W, NULL)
    ELSE IF ~cbm_is_sysconfig_sane(W.sysconfig) THEN Ret(W, NULL)
    ELSE bl_get_default_kernel(W, in)

\* The mutant of kernel_compare_reverse that puts the lowest release first.
kernel_compare_Ascending(ka, kb) == IF ka.release < kb.release THEN -1 ELSE 1

\* kernel_compare_reverse
kernel_compare_reverse(ka, kb) == IF ka.release > kb.release THEN -1 ELSE 1

\* nc_array_qsort(kernels, kernel_compare_reverse), as an insertion sort: k
\* goes before the first element it compares less than.
RECURSIVE InsertKernel(_, _)
InsertKernel(sorted, k) ==
    IF sorted = << >> THEN << k >>
    ELSE IF kernel_compare_reverse(k, Head(sorted)) < 0 THEN << k >> \o sorted
    ELSE << Head(sorted) >> \o InsertKernel(Tail(sorted), k)

RECURSIVE nc_array_qsort(_)
nc_array_qsort(kernels) ==
    IF kernels = << >> THEN << >>
    ELSE InsertKernel(nc_array_qsort(Tail(kernels)), Head(kernels))

\* kernel_compare_reverse answers 1 to both orders of two kernels of equal
\* release, which is no ordering qsort(3) is defined for: where such kernels
\* end up depends on which of the two the sort hands over first.  This is the
\* insertion sort that hands k over as the second argument: k goes before the
\* first element that does not compare less than it.
RECURSIVE InsertKernelSecond(_, _)
InsertKernelSecond(sorted, k) ==
    IF sorted = << >> THEN << k >>
    ELSE IF kernel_compare_reverse(Head(sorted), k) > 0 THEN << k >> \o sorted
    ELSE << Head(sorted) >> \o InsertKernelSecond(Tail(sorted), k)

RECURSIVE SortSecond(_)
SortSecond(kernels) ==
    IF kernels = << >> THEN << >>
    ELSE InsertKernelSecond(SortSecond(Tail(kernels)), Head(kernels))

\* boot_manager_list_kernels, lines 524-539: the strings returned.
ListResults(kernels, default_kernel) ==
    [ i \in 1..Len(kernels) |->
        IF default_kernel # NULL /\ default_kernel = kernels[i].bpath
        THEN "* " \o kernels[i].bpath
        ELSE "  " \o kernels[i].bpath ]

\* boot_manager_list_kernels: .null = TRUE models the NULL result.
\* self->sysconfig is dereferenced without a check.
boot_manager_list_kernels(W, in) ==
    LET W0 == Emit(W, "get_kernels", NULL) IN
    IF Len(in.kernels) = 0 THEN Ret(W0, [null |-> TRUE, arr |-> << >>])
    ELSE IF ~W0.sysconfig.valid THEN Ret(Crash(W0), [null |-> TRUE, arr |-> << >>])
    ELSE Bind(MountUnlessLegacy(W0, in), LAMBDA m :
         LET kernels == IF in.tie_second THEN SortSecond(in.kernels)
                        ELSE nc_array_qsort(in.kernels)
             did_mount == m.r.ret
         IN  IF m.w.crashed THEN Ret(m.w, [null |-> TRUE, arr |-> << >>])
             ELSE IF did_mount < 0
             THEN Ret(m.w, [null |-> FALSE, arr |-> ListResults(kernels, NULL)])
             ELSE Bind(boot_manager_get_default_kernel(m.w, in), LAMBDA dk :
                  LET W1 == UmountIfMounted(dk.w, did_mount, m.r.boot_directory, in)
                  IN  Ret(W1, [null |-> FALSE, arr |-> ListResults(kernels, dk.r)])))

---------------------------------------------------------------------------
(* bootman.c: boot_manager_modify_bootloader *)

\* The mutant of Dispatch that installs without asking needs_install.
Dispatch_NoCheck(W, flags, in) ==
    IF OP_INSTALL \in flags THEN bl_install(W, in)
    ELSE IF OP_REMOVE \in flags THEN bl_remove(W, in)
    ELSE IF OP_UPDATE \in flags THEN bl_update(W, in)
    ELSE Ret(W, FALSE)

\* boot_manager_modify_bootloader, lines 617-640: the dispatch on flags.
Dispatch(W, flags, in) ==
    LET nocheck == OP_NO_CHECK \in flags
        Wi == Emit(W, "needs_install", NULL)
        Wu == Emit(W, "needs_update", NULL)
    IN  IF OP_INSTALL \in flags
        THEN IF nocheck THEN bl_install(W, in)
             ELSE IF bl_needs_install(Wi, in) THEN bl_install(Wi, in)
             ELSE Ret(Wi, TRUE)
        ELSE IF OP_REMOVE \in flags THEN bl_remove(W, in)
        ELSE IF OP_UPDATE \in flags
        THEN IF nocheck THEN bl_update(W, in)
             ELSE IF bl_needs_update(Wu, in) THEN bl_update(Wu, in)
             ELSE Ret(Wu, TRUE)
        ELSE Ret(W, FALSE)

\* boot_manager_modify_bootloader
boot_manager_modify_bootloader(W, flags, in) ==
    IF W.bootloader = NULL THEN Ret(W, FALSE)
    ELSE IF ~cbm_is_sysconfig_sane(W.sysconfig) THEN Ret(W, FALSE)
    ELSE Bind(boot_manager_get_boot_dir(W), LAMBDA bd :
         Bind(boot_manager_set_boot_dir(bd.w, bd.r, in), LAMBDA sb :
         IF sb.w.crashed \/ ~sb.r THEN Ret(sb.w, FALSE)
         ELSE Dispatch(sb.w, flags, in)))

---------------------------------------------------------------------------
(* bootman.c: the freestanding initrds *)

\* nc_hashmap_put: the value of an existing key is replaced, a new key is added.
nc_hashmap_put(map, key, val) ==
    IF \E i \in 1..Len(map) : map[i].key = key
    THEN [ i \in 1..Len(map) |-> IF map[i].key = key
                                 THEN [key |-> key, val |-> val] ELSE map[i] ]
    ELSE Append(map, [key |-> key, val |-> val])

\* nc_hashmap_get(map, key) != NULL
nc_hashmap_get(map, key) == \E i \in 1..Len(map) : map[i].key = key

\* readdir of a directory: its entries in the order `order` of the names
Listing(dir, order) ==
    SelectSeq(order, LAMBDA n : n \in DOMAIN dir.ents /\ dir.ents[n].kind # "none")

\* boot_manager_enumerate_initrds_freestanding, lines 713-747: the loop.
RECURSIVE EnumerateEntries(_, _, _)
EnumerateEntries(dir, names, map) ==
    IF names = << >> THEN map
    ELSE LET ent == dir.ents[Head(names)]
             skip == ent.kind = "broken" \/ ent.kind # "reg" \/ ent.data = 0
         IN  EnumerateEntries(dir, Tail(names),
                 IF skip THEN map
                 ELSE nc_hashmap_put(map, FreestandingKey(Head(names)), Head(names)))

\* boot_manager_enumerate_initrds_freestanding
boot_manager_enumerate_initrds_freestanding(W, order, in) ==
    IF W.initrd_freestanding_dir = NULL THEN Ret(W, FALSE)
    ELSE IF ~W.initrds.exists THEN Ret(W, TRUE)
    ELSE IF ~in.opendir_ok THEN Ret(W, FALSE)
    ELSE Ret([W EXCEPT !.initrd_freestanding =
                  EnumerateEntries(W.initrds, Listing(W.initrds, order), @)], TRUE)

\* The directory a path names: a boot directory, the kernel destination
\* under it, or none.  A doubled slash, at the start or before the
\* destination, names the same directory.
ResolveDir(p) ==
    LET named == { d \in TargetDirs :
                     \E b \in {"/boot", "/mnt/esp"}, w \in {"", "/"} :
                        \/ d = b /\ p \in {w \o b, w \o b \o "/"}
                        \/ d = b \o KernelDst
                             /\ p \in {w \o b \o KernelDst,
                                        w \o b \o "/" \o KernelDst} }
    IN  IF named = {} THEN NULL ELSE CHOOSE d \in named : TRUE

\* The mutant of HasFreestandingPrefix that matches every name.
HasFreestandingPrefix_Always(name) == TRUE

\* The mutant of HasFreestandingPrefix that matches no name.
HasFreestandingPrefix_Never(name) == FALSE

\* strstr(d_name, "freestanding-") == d_name
HasFreestandingPrefix(name) == name \in { FreestandingKey(n) : n \in BaseNames }

\* cbm_files_match(source, target): both are regular files of equal content.
cbm_files_match(W, val, dir, key) ==
    /\ W.initrds.exists /\ val \in SrcNames /\ W.initrds.ents[val].kind = "reg"
    /\ dir # NULL /\ W.bootfs[dir].exists /\ W.bootfs[dir].ents[key].kind = "reg"
    /\ W.initrds.ents[val].data = W.bootfs[dir].ents[key].data

\* copy_file_atomic(source, target, 00644): the target holds the content of
\* the source, or is left as it was.
copy_file_atomic(W, val, dir, key, in) ==
    IF /\ in.copy_ok
       /\ W.initrds.exists /\ val \in SrcNames /\ W.initrds.ents[val].kind = "reg"
       /\ dir # NULL /\ W.bootfs[dir].exists /\ W.bootfs[dir].ents[key].kind # "dir"
    THEN Ret([Emit(W, "copy_file_atomic", [dir |-> dir, name |-> key])
                 EXCEPT !.bootfs[dir].ents[key] = RegularFile(W.initrds.ents[val].data)],
             TRUE)
    ELSE Ret(Emit(W, "copy_file_atomic", [dir |-> dir, name |-> key]), FALSE)


\* self->bootloader->get_kernel_destination: extlinux_bootloader leaves the
\* entry NULL.
bl_get_kernel_destination(W) ==
    IF W.bootloader = "extlinux" THEN Ret(Crash(W), NULL)
    ELSE generic_get_kernel_destination(W)

\* boot_manager_copy_initrd_freestanding, lines 771-791: the loop over the map.
RECURSIVE CopyEntries(_, _, _, _)
CopyEntries(W, map, dir, in) ==
    IF map = << >> THEN Ret(W, TRUE)
    ELSE LET key == Head(map).key
             val == Head(map).val
         IN  IF cbm_files_match(W, val, dir, key)
             THEN CopyEntries(W, Tail(map), dir, in)
             ELSE Bind(copy_file_atomic(W, val, dir, key, in), LAMBDA c :
                  IF ~c.r THEN Ret(c.w, FALSE)
                  ELSE CopyEntries(c.w, Tail(map), dir, in))

\* boot_manager_copy_initrd_freestanding
boot_manager_copy_initrd_freestanding(W, in) ==
    IF W.bootloader = NULL THEN Ret(Crash(W), FALSE)
    ELSE Bind(bl_get_capabilities(W, W.bootloader), LAMBDA caps :
         IF caps.w.crashed THEN Ret(caps.w, FALSE)
         ELSE
         LET is_uefi == CAP_UEFI \in caps.r IN
         Bind(IF is_uefi THEN bl_get_kernel_destination(caps.w) ELSE Ret(caps.w, NULL),
              LAMBDA efi_boot_dir :
         Bind(boot_manager_get_boot_dir(efi_boot_dir.w), LAMBDA bp :
         IF bp.w.crashed THEN Ret(bp.w, FALSE)
         ELSE IF bp.w.initrd_freestanding_dir = NULL THEN Ret(bp.w, FALSE)
         ELSE IF is_uefi /\ efi_boot_dir.r = NULL THEN Ret(bp.w, FALSE)
         ELSE CopyEntries(bp.w, bp.w.initrd_freestanding,
                          ResolveDir(bp.r \o (IF is_uefi THEN efi_boot_dir.r ELSE "")),
                          in))))

\* unlink(2) of an entry of a directory: a directory is not unlinked.
unlink(W, dir, name, in) ==
    IF in.unlink_ok /\ W.bootfs[dir].ents[name].kind # "dir"
    THEN Ret([Emit(W, "unlink", [dir |-> dir, name |-> name])
                 EXCEPT !.bootfs[dir].ents[name] = Absent], TRUE)
    ELSE Ret(Emit(W, "unlink", [dir |-> dir, name |-> name]), FALSE)

\* nc_file_exists(path): lstat succeeds.
nc_file_exists(W, dir, name) == W.bootfs[dir].ents[name].kind # "none"

\* boot_manager_remove_initrd_freestanding, lines 825-846: the loop over the
\* entries of the target directory.
RECURSIVE RemoveEntries(_, _, _, _)
RemoveEntries(W, names, dir, in) ==
    IF names = << >> THEN Ret(W, TRUE)
    ELSE IF ~HasFreestandingPrefix(Head(names))
         THEN RemoveEntries(W, Tail(names), dir, in)
         ELSE IF nc_hashmap_get(W.initrd_freestanding, Head(names))
         THEN RemoveEntries(W, Tail(names), dir, in)
         ELSE IF ~nc_file_exists(W, dir, Head(names))
         THEN RemoveEntries(W, Tail(names), dir, in)
         ELSE Bind(unlink(W, dir, Head(names), in), LAMBDA u :
              IF ~u.r THEN Ret(u.w, FALSE)
              ELSE RemoveEntries(u.w, Tail(names), dir, in))

\* boot_manager_remove_initrd_freestanding
boot_manager_remove_initrd_freestanding(W, order, in) ==
    IF W.bootloader = NULL THEN Ret(Crash(W), FALSE)
    ELSE Bind(bl_get_capabilities(W, W.bootloader), LAMBDA caps :
         IF caps.w.crashed THEN Ret(caps.w, FALSE)
         ELSE
         LET is_uefi == CAP_UEFI \in caps.r IN
         Bind(IF is_uefi THEN bl_get_kernel_destination(caps.w) ELSE Ret(caps.w, NULL),
              LAMBDA efi_boot_dir :
         IF efi_boot_dir.w.initrd_freestanding_dir = NULL THEN Ret(efi_boot_dir.w, FALSE)
         ELSE IF is_uefi /\ efi_boot_dir.r = NULL THEN Ret(efi_boot_dir.w, FALSE)
         ELSE
         Bind(boot_manager_get_boot_dir(efi_boot_dir.w), LAMBDA bp :
         IF bp.w.crashed THEN Ret(bp.w, FALSE)
         ELSE
         LET dir == ResolveDir(bp.r \o "/" \o (IF is_uefi THEN efi_boot_dir.r ELSE ""))
         IN  IF dir = NULL \/ ~bp.w.bootfs[dir].exists \/ ~in.opendir_ok
             THEN Ret(bp.w, FALSE)
             ELSE RemoveEntries(Emit(bp.w, "opendir", dir),
                                Listing(bp.w.bootfs[dir], order), dir, in))))

---------------------------------------------------------------------------
(* What the host answers during one call *)

\* Every system call succeeds, every backend of the contract agrees.
DefaultIn ==
    [ init_ok |-> TRUE, write_ok |-> TRUE, fail_state |-> "kept",
      mount_ok |-> TRUE, umount_ok |-> TRUE, kernels |-> << >>,
      gen_ok |-> TRUE, gen_needs |-> TRUE, gen_default |-> NULL,
      blob_ok |-> TRUE, open_disk_ok |-> TRUE, open_mbr_ok |-> TRUE,
      opendir_ok |-> TRUE, copy_ok |-> TRUE, unlink_ok |-> TRUE, alloc_ok |-> TRUE,
      tie_second |-> FALSE,
      count |-> CBM_MBR_SYSLINUX_SIZE, sys_rc |-> 0 ]

FailStates == {"kept", "removed", "partial"}

\* What file_set_text may answer
WriteInputs ==
    { [DefaultIn EXCEPT !.write_ok = TRUE] }
    \cup { [DefaultIn EXCEPT !.write_ok = FALSE, !.fail_state = f] : f \in FailStates }

\* What open, sendfile and system may answer to extlinux_install: all succeed,
\* or one of them is the first to fail.
InstallInputs ==
    { DefaultIn,
      [DefaultIn EXCEPT !.open_disk_ok = FALSE],
      [DefaultIn EXCEPT !.open_mbr_ok = FALSE],
      [DefaultIn EXCEPT !.count = 100],
      [DefaultIn EXCEPT !.count = -1],
      [DefaultIn EXCEPT !.sys_rc = 1] }

\* The directories of the model, and the mount points among them
BootDirs == {"/boot", "/mnt/esp"}

\* A legacy host: no EFI firmware, /boot on the root partition, extlinux
\* installed.
LegacyHost ==
    [ sysfs_efi |-> FALSE, legacy_dev |-> NULL,
      esp_dev |-> NULL, dev_resolves |-> TRUE, fstype |-> "ext4",
      root_probe |-> ProbePart, parent_disk |-> "/dev/sda", extlinux_x |-> TRUE,
      kernel_dst |-> NULL,
      caps |-> [n \in {"grub2", "systemd"} |-> {}] ]

---------------------------------------------------------------------------
(* The extlinux backend, driven through its vtable entries *)

\* The facade of a legacy host after set_prefix("/") selected extlinux, before
\* the backend's first init.
InitExtlinux ==
    /\ bootloader = "extlinux"
    /\ sysconfig \in
         { [ valid |-> TRUE, prefix |-> "/", boot_device |-> NULL,
             root_device |-> r, wanted_boot_mask |-> {CAP_LEGACY} ] :
           r \in {ProbeUuid, ProbePart} }
    /\ abs_bootdir = NULL
    /\ image_mode = FALSE
    /\ initrd_freestanding \in { InitrdMap(n) : n \in 0..MaxInitrds }
    /\ initrd_freestanding_dir = "/" \o "/" \o INITRD_DIRECTORY
    /\ initrds = NoDir(SrcNames)
    /\ bootfs = [d \in TargetDirs |->
                   IF d = "/boot" THEN EmptyDir(TgtNames) ELSE NoDir(TgtNames)]
    /\ kernel_queue = NullQueue
    /\ extlinux_cmd = NULL
    /\ base_path = NULL
    /\ gen_inited = FALSE
    /\ host = LegacyHost
    /\ mounts = [d \in BootDirs |-> NULL]
    /\ files = [d \in BootDirs |-> NoFile]
    /\ ldlinux = {}
    /\ dirs = {"/", "/boot"}
    /\ mbr = 0
    /\ crashed = FALSE
    /\ last = [op |-> "new", arg |-> NULL, ret |-> NULL]
    /\ ev = << >>

XInit ==
    /\ ~crashed
    /\ LET r == extlinux_init(World, DefaultIn) IN Commit(r.w, "init", NULL, r.r)

XDestroy ==
    /\ ~crashed
    /\ Commit(extlinux_destroy(World), "destroy", NULL, NULL)

XInstallKernel ==
    /\ ~crashed
    /\ \E k \in BackendKernels :
         LET r == extlinux_install_kernel(World, k)
         IN  Commit(r.w, "install_kernel", k, r.r)

XRemoveKernel ==
    /\ ~crashed
    /\ \E k \in Kernels :
         LET r == extlinux_remove_kernel(World, k)
         IN  Commit(r.w, "remove_kernel", k, r.r)

XSetDefaultKernel ==
    /\ ~crashed
    /\ \E k \in BackendKernels \cup {NullKernel}, in \in WriteInputs :
         LET r == extlinux_set_default_kernel(World, k, in)
         IN  Commit(r.w, "set_default_kernel", k, r.r)

NextExtlinux ==
    \/ XInit
    \/ XDestroy
    \/ XInstallKernel
    \/ XRemoveKernel
    \/ XSetDefaultKernel

SpecExtlinux == InitExtlinux /\ [][NextExtlinux]_vars

---------------------------------------------------------------------------
(* The extlinux backend deploying the bootloader, with at most one kernel  *)
(* queued                                                                  *)

XInstallFirstKernel ==
    /\ ~crashed
    /\ LET r == extlinux_install_kernel(World, KernelOf(1))
       IN  Commit(r.w, "install_kernel", KernelOf(1), r.r)

XInstall ==
    /\ ~crashed
    /\ \E in \in InstallInputs :
         LET r == extlinux_install(World, in)
         IN  Commit(r.w, "install", [sys_rc |-> in.sys_rc], r.r)

XUpdate ==
    /\ ~crashed
    /\ \E in \in InstallInputs :
         LET r == extlinux_update(World, in)
         IN  Commit(r.w, "update", [sys_rc |-> in.sys_rc], r.r)

NextExtlinuxBoot ==
    \/ XInit
    \/ XDestroy
    \/ XInstallFirstKernel
    \/ XSetDefaultKernel
    \/ XInstall
    \/ XUpdate

SpecExtlinuxBoot == InitExtlinux /\ [][NextExtlinuxBoot]_vars

---------------------------------------------------------------------------
(* The extlinux backend installed directly and through *)
(* boot_manager_modify_bootloader, while ldlinux.sys comes and goes *)

\* boot_manager_modify_bootloader on the facade that selected extlinux
XModifyBootloader ==
    /\ ~crashed
    /\ \E flags \in {{OP_INSTALL}, {OP_INSTALL, OP_NO_CHECK}, {OP_UPDATE}, {OP_REMOVE}},
          in \in InstallInputs :
         LET r == boot_manager_modify_bootloader(World, flags, in)
         IN  Commit(r.w, "modify_bootloader",
                    [flags |-> flags, sys_rc |-> in.sys_rc], r.r)

\* The administrator removes ldlinux.sys from the boot directory, or puts a
\* copy there.
HostLdlinux ==
    /\ ~crashed
    /\ \E d \in BootDirs \cap dirs :
         Commit([World EXCEPT !.ldlinux = IF d \in @ THEN @ \ {d} ELSE @ \cup {d}],
                "host_ldlinux", d, NULL)

\* extlinux_init while memory is short
XInitNoMemory ==
    /\ ~crashed
    /\ LET r == extlinux_init(World, [DefaultIn EXCEPT !.alloc_ok = FALSE])
       IN  Commit(r.w, "init", "ENOMEM", r.r)

NextExtlinuxModify ==
    \/ XInit
    \/ XInitNoMemory
    \/ XInstall
    \/ XModifyBootloader
    \/ HostLdlinux

SpecExtlinuxModify == InitExtlinux /\ [][NextExtlinuxModify]_vars

---------------------------------------------------------------------------
(* The life cycle of the extlinux backend *)

NextExtlinuxLife ==
    \/ XInit
    \/ XInitNoMemory
    \/ XDestroy
    \/ XInstallFirstKernel
    \/ XSetDefaultKernel

SpecExtlinuxLife == InitExtlinux /\ [][NextExtlinuxLife]_vars

---------------------------------------------------------------------------
(* The facade after boot_manager_new, on the host h *)

InitFacade(h) ==
    /\ bootloader = NULL
    /\ sysconfig = NullConfig
    /\ abs_bootdir = NULL
    /\ image_mode = FALSE
    /\ initrd_freestanding = << >>
    /\ initrd_freestanding_dir = NULL
    /\ initrds = NoDir(SrcNames)
    /\ bootfs = [d \in TargetDirs |->
                   IF d = "/boot" \/ (d = "/boot" \o KernelDst /\ h.kernel_dst # NULL)
                   THEN EmptyDir(TgtNames) ELSE NoDir(TgtNames)]
    /\ kernel_queue = NullQueue
    /\ extlinux_cmd = NULL
    /\ base_path = NULL
    /\ gen_inited = FALSE
    /\ host = h
    /\ mounts = [d \in BootDirs |-> NULL]
    /\ files = [d \in BootDirs |-> NoFile]
    /\ ldlinux = {}
    /\ dirs = {"/", "/boot"}
    /\ mbr = 0
    /\ crashed = FALSE
    /\ last = [op |-> "new", arg |-> NULL, ret |-> NULL]
    /\ ev = << >>

\* boot_manager_set_image_mode
SetImageMode ==
    /\ ~crashed
    /\ \E b \in BOOLEAN :
         Commit([World EXCEPT !.image_mode = b], "set_image_mode", b, NULL)

\* boot_manager_set_prefix, with a prefix that exists or one that does not
SetPrefix ==
    /\ ~crashed
    /\ \E p \in {"/", "/missing"}, ok \in BOOLEAN :
         LET r == boot_manager_set_prefix(World, p, [DefaultIn EXCEPT !.init_ok = ok])
         IN  Commit(r.w, "set_prefix", p, r.r)

---------------------------------------------------------------------------
(* The host inspector alone *)

\* What discovery may find on a host
InspectHosts ==
    { [LegacyHost EXCEPT !.sysfs_efi = e, !.legacy_dev = l, !.esp_dev = s,
                         !.dev_resolves = v, !.fstype = f, !.root_probe = r] :
        e \in BOOLEAN,
        l \in {NULL, "/dev/disk/by-partuuid/legacy"},
        s \in {NULL, "/dev/disk/by-partuuid/esp"},
        v \in BOOLEAN,
        f \in {"ext2", "ext3", "ext4", "vfat", "btrfs", NULL},
        r \in {NullProbe, ProbePart} }

InitInspect == \E h \in InspectHosts : InitFacade(h)

\* cbm_inspect_root(path, image_mode); the result is last.ret.
InspectRoot ==
    /\ ~crashed
    /\ \E p \in {"/", "/missing"}, im \in BOOLEAN :
         LET r == cbm_inspect_root(World, p, im)
         IN  Commit(r.w, "cbm_inspect_root", [path |-> p, image_mode |-> im], r.r)

NextInspect == InspectRoot

SpecInspect == InitInspect /\ [][NextInspect]_vars

---------------------------------------------------------------------------
(* The selector, through boot_manager_set_prefix *)

\* What a backend outside extlinux.c may report as its capabilities
CapChoices ==
    { {}, {CAP_UEFI, CAP_GPT, CAP_FATFS}, {CAP_LEGACY, CAP_GPT}, Caps }

SelectHosts ==
    { [LegacyHost EXCEPT !.sysfs_efi = e, !.legacy_dev = l, !.esp_dev = s,
                         !.fstype = f, !.extlinux_x = x,
                         !.caps = [n \in {"grub2", "systemd"} |->
                                     IF n = "grub2" THEN g ELSE d]] :
        e \in BOOLEAN,
        l \in {NULL, "/dev/disk/by-partuuid/legacy"},
        s \in {NULL, "/dev/disk/by-partuuid/esp"},
        f \in {"ext4", "vfat", "btrfs"},
        x \in BOOLEAN, g \in CapChoices, d \in CapChoices }

InitSelect == \E h \in SelectHosts : InitFacade(h)

NextSelect ==
    \/ SetImageMode
    \/ SetPrefix

SpecSelect == InitSelect /\ [][NextSelect]_vars

---------------------------------------------------------------------------
(* The facade, driven by its public operations *)

\* A UEFI host: EFI firmware, an ESP, the systemd class backend installed.
UefiHost ==
    [LegacyHost EXCEPT !.sysfs_efi = TRUE, !.esp_dev = "/dev/disk/by-partuuid/esp",
                       !.fstype = "vfat", !.extlinux_x = FALSE,
                       !.caps = [n \in {"grub2", "systemd"} |->
                                   IF n = "systemd"
                                   THEN {CAP_UEFI, CAP_GPT, CAP_FATFS} ELSE {}]]

\* A legacy host with a boot partition, served by grub2.
GrubHost ==
    [LegacyHost EXCEPT !.legacy_dev = "/dev/disk/by-partuuid/legacy",
                       !.caps = [n \in {"grub2", "systemd"} |->
                                   IF n = "grub2"
                                   THEN {CAP_LEGACY, CAP_GPT, CAP_EXTFS, CAP_FATFS}
                                   ELSE {}]]

Hosts == {UefiHost, GrubHost}

\* The kernels a caller may name: the installed ones, and a record of the
\* first with another source.path.
CallerKernels == Kernels \cup {AltSource(KernelOf(1))}

\* What boot_manager_get_kernels may enumerate: the first n kernels.
Enumerations == { [i \in 1..n |-> KernelOf(i)] : n \in 0..MaxKernels }

\* What the host may answer during one call of the facade: every call
\* succeeds, or one kind of call fails.
MountInputs ==
    { DefaultIn,
      [DefaultIn EXCEPT !.init_ok = FALSE],
      [DefaultIn EXCEPT !.mount_ok = FALSE],
      [DefaultIn EXCEPT !.umount_ok = FALSE] }

SetDefaultInputs ==
    MountInputs \cup { [DefaultIn EXCEPT !.write_ok = FALSE],
                       [DefaultIn EXCEPT !.gen_ok = FALSE] }

ListInputs ==
    MountInputs \cup { [DefaultIn EXCEPT !.gen_default = KernelOf(1).bpath] }

ModifyInputs ==
    { DefaultIn,
      [DefaultIn EXCEPT !.init_ok = FALSE],
      [DefaultIn EXCEPT !.gen_ok = FALSE],
      [DefaultIn EXCEPT !.gen_needs = FALSE],
      [DefaultIn EXCEPT !.gen_needs = FALSE, !.gen_ok = FALSE],
      [DefaultIn EXCEPT !.sys_rc = 1] }

Init == \E h \in Hosts : InitFacade(h)

\* boot_manager_install_kernel
InstallKernel ==
    /\ ~crashed
    /\ \E k \in Kernels, in \in {DefaultIn, [DefaultIn EXCEPT !.blob_ok = FALSE],
                                 [DefaultIn EXCEPT !.gen_ok = FALSE]} :
         LET r == boot_manager_install_kernel(World, k, in)
         IN  Commit(r.w, "install_kernel", k, r.r)

\* boot_manager_remove_kernel
RemoveKernel ==
    /\ ~crashed
    /\ \E k \in Kernels, in \in {DefaultIn, [DefaultIn EXCEPT !.blob_ok = FALSE],
                                 [DefaultIn EXCEPT !.gen_ok = FALSE]} :
         LET r == boot_manager_remove_kernel(World, k, in)
         IN  Commit(r.w, "remove_kernel", k, r.r)

\* boot_manager_set_default_kernel
SetDefaultKernel ==
    /\ ~crashed
    /\ \E k \in CallerKernels, ks \in Enumerations, in \in SetDefaultInputs :
         LET r == boot_manager_set_default_kernel(World, k, [in EXCEPT !.kernels = ks])
         IN  Commit(r.w, "set_default_kernel", [kernel |-> k, kernels |-> ks], r.r)

\* boot_manager_list_kernels.  The kernel directory is named by the
\* boot_manager_set_prefix that also names the initrd directory: before it
\* there is no directory to enumerate.
ListKernels ==
    /\ ~crashed
    /\ \E ks \in Enumerations, in \in ListInputs :
         /\ initrd_freestanding_dir = NULL => ks = << >>
         /\ LET r == boot_manager_list_kernels(World, [in EXCEPT !.kernels = ks])
            IN  Commit(r.w, "list_kernels", [kernels |-> ks], r.r)

\* boot_manager_modify_bootloader.  last.arg keeps, with the flags, what the
\* backend answers in this call: to needs_install or needs_update, and to the
\* action dispatched.
ModifyBootloader ==
    /\ ~crashed
    /\ \E flags \in SUBSET FlagBits, in \in ModifyInputs :
         LET r == boot_manager_modify_bootloader(World, flags, in)
         IN  Commit(r.w, "modify_bootloader",
                    [flags |-> flags, needs |-> bl_needs_install(World, in),
                     answer |-> in.gen_ok], r.r)

\* boot_manager_set_boot_dir
SetBootDir ==
    /\ ~crashed
    /\ \E d \in BootDirs, ok \in BOOLEAN :
         LET r == boot_manager_set_boot_dir(World, d, [DefaultIn EXCEPT !.init_ok = ok])
         IN  Commit(r.w, "set_boot_dir", d, r.r)

\* boot_manager_free, and the boot_manager_new of the next manager of the
\* process, which starts outside image mode.
FreeManager ==
    /\ ~crashed
    /\ Commit([boot_manager_free(World) EXCEPT !.image_mode = FALSE],
              "free", NULL, NULL)

\* The administrator mounts the boot device on a directory, or unmounts it.
HostMount ==
    /\ ~crashed
    /\ sysconfig.valid /\ sysconfig.boot_device # NULL
    /\ \E d \in BootDirs :
         /\ mounts[d] = NULL
         /\ \A o \in BootDirs : mounts[o] # sysconfig.boot_device
         /\ Commit([World EXCEPT !.mounts[d] = sysconfig.boot_device,
                                 !.dirs = @ \cup {d},
                                 !.bootfs[d].exists = TRUE],
                   "host_mount", d, NULL)

HostUmount ==
    /\ ~crashed
    /\ \E d \in BootDirs :
         /\ mounts[d] # NULL
         /\ Commit([World EXCEPT !.mounts[d] = NULL], "host_umount", d, NULL)

Next ==
    \/ SetPrefix
    \/ InstallKernel
    \/ RemoveKernel
    \/ SetDefaultKernel
    \/ ListKernels
    \/ ModifyBootloader
    \/ SetBootDir
    \/ FreeManager
    \/ HostMount
    \/ HostUmount

Spec == Init /\ [][Next]_vars

---------------------------------------------------------------------------
(* boot_manager_list_kernels over every order of the kernel directory *)

\* The kernels of the directory: the installed ones and one of another type
\* with the release of the first.
ListedKernels == Kernels \cup {SameRelease(KernelOf(1))}

\* What boot_manager_get_kernels may enumerate: some of them, in any order.
ListEnumerations ==
    { q \in UNION { [1..n -> ListedKernels] : n \in 0..MaxKernels + 1 } :
        \A i, j \in 1..Len(q) : i # j => q[i] # q[j] }

\* boot_manager_list_kernels; last.arg keeps the enumeration and the default
\* the backend reports.  Before a boot_manager_set_prefix named the kernel
\* directory there is nothing to enumerate.
ListAnyOrder ==
    /\ ~crashed
    /\ \E ks \in ListEnumerations, in \in ListInputs, tie \in BOOLEAN :
         /\ initrd_freestanding_dir = NULL => ks = << >>
         /\ LET r == boot_manager_list_kernels(World,
                         [in EXCEPT !.kernels = ks, !.tie_second = tie])
            IN  Commit(r.w, "list_kernels",
                       [kernels |-> ks, gen_default |-> in.gen_default], r.r)

NextList ==
    \/ SetPrefix
    \/ ListAnyOrder

SpecList == Init /\ [][NextList]_vars

---------------------------------------------------------------------------
(* The freestanding initrd reconciler *)

\* The hosts: extlinux on a legacy host, and a UEFI backend that names a
\* kernel destination with or without a leading slash, or none.
InitrdHosts ==
    {LegacyHost, GrubHost} \cup { [UefiHost EXCEPT !.kernel_dst = d] : d \in {NULL, KernelDst, "EFI/org.k"} }

InitInitrd == \E h \in InitrdHosts : InitFacade(h)

\* The orders readdir may list names in: one order and its reverse
Orders(q) == { q, [ i \in 1..Len(q) |-> q[Len(q) + 1 - i] ] }

SrcOrder == [ i \in 1..MaxInitrds |-> InitrdName(i) ]
TgtOrder ==
    [ i \in 1..MaxInitrds |-> FreestandingKey(InitrdName(i)) ]
        \o << FreestandingKey("old.img"), "kernel-1" >>

\* What a file may hold
FileData == {1, 2}

\* boot_manager_set_prefix("/")
SetRootPrefix ==
    /\ ~crashed
    /\ LET r == boot_manager_set_prefix(World, "/", DefaultIn)
       IN  Commit(r.w, "set_prefix", "/", r.r)

\* boot_manager_enumerate_initrds_freestanding
EnumerateInitrds ==
    /\ ~crashed
    /\ \E order \in Orders(SrcOrder), ok \in BOOLEAN :
         LET r == boot_manager_enumerate_initrds_freestanding(
                      World, order, [DefaultIn EXCEPT !.opendir_ok = ok])
         IN  Commit(r.w, "enumerate_initrds_freestanding", NULL, r.r)

\* boot_manager_copy_initrd_freestanding
CopyInitrd ==
    /\ ~crashed
    /\ \E ok \in BOOLEAN :
         LET r == boot_manager_copy_initrd_freestanding(World, [DefaultIn EXCEPT !.copy_ok = ok])
         IN  Commit(r.w, "copy_initrd_freestanding", NULL, r.r)

\* boot_manager_remove_initrd_freestanding
RemoveInitrd ==
    /\ ~crashed
    /\ \E order \in Orders(TgtOrder),
          in \in { DefaultIn, [DefaultIn EXCEPT !.unlink_ok = FALSE],
                   [DefaultIn EXCEPT !.opendir_ok = FALSE] } :
         LET r == boot_manager_remove_initrd_freestanding(World, order, in)
         IN  Commit(r.w, "remove_initrd_freestanding", NULL, r.r)

\* The administrator puts an entry into the freestanding initrd directory,
\* or takes one out.
HostWritesInitrd ==
    /\ ~crashed
    /\ \E n \in SrcNames,
          e \in { RegularFile(d) : d \in FileData \cup {0} }
                \cup { Absent, [kind |-> "dir", data |-> 0], [kind |-> "broken", data |-> 0] } :
         /\ initrds.ents[n] # e
         /\ n # InitrdName(1) => e \in {Absent, RegularFile(1)}
         /\ Commit([World EXCEPT !.initrds = [exists |-> TRUE,
                                              ents |-> [initrds.ents EXCEPT ![n] = e]]],
                   "host_writes_initrd", n, NULL)

\* An earlier run, or the administrator, left an entry in a directory of the
\* boot partition.
HostWritesBoot ==
    /\ ~crashed
    /\ \E d \in { ResolveDir("/boot" \o (IF host.kernel_dst = NULL THEN "" ELSE KernelDst)) },
          n \in TgtNames,
          e \in { RegularFile(1), [kind |-> "dir", data |-> 0] } :
         /\ bootfs[d].exists
         /\ bootfs[d].ents[n].kind = "none"
         /\ e.kind = "dir" => n = FreestandingKey("old.img")
         /\ n \in {FreestandingKey(InitrdName(1)), FreestandingKey("old.img"), "kernel-1"}
         /\ Commit([World EXCEPT !.bootfs[d].ents[n] = e],
                   "host_writes_boot", [dir |-> d, name |-> n], NULL)

\* boot_manager_set_boot_dir by a caller that names where the boot files
\* are: the directory the boot device is mounted on, or, on a host without a
\* boot device, the boot directory of the prefix as
\* boot_manager_get_boot_dir concatenates it.
SetEspBootDir ==
    /\ ~crashed
    /\ \E d \in {"/mnt/esp", "/" \o BOOT_DIRECTORY} :
         /\ d = "/mnt/esp" => mounts[d] # NULL
         /\ d = "/" \o BOOT_DIRECTORY => (host.legacy_dev = NULL /\ host.esp_dev = NULL)
         /\ LET r == boot_manager_set_boot_dir(World, d, DefaultIn)
            IN  Commit(r.w, "set_boot_dir", d, r.r)

NextInitrd ==
    \/ SetRootPrefix
    \/ EnumerateInitrds
    \/ CopyInitrd
    \/ RemoveInitrd
    \/ HostWritesInitrd
    \/ HostWritesBoot
    \/ SetEspBootDir
    \/ HostMount

SpecInitrd == InitInitrd /\ [][NextInitrd]_vars

---------------------------------------------------------------------------
(* The host inspector: the masks cbm_inspect_root produces *)

\* cbm_inspect_root returned a SystemConfig
Inspected == last.op = "cbm_inspect_root" /\ ~crashed /\ last.ret.valid

\* An inspection in which cbm_get_fstype exited the process went no further:
\* the root device was not probed and no SystemConfig came back.
ExitEndsInspection ==
    (last.op = "cbm_inspect_root" /\ crashed) =>
        /\ ~last.ret.valid
        /\ Count(ev, "cbm_probe_path") = 0
        /\ ev[Len(ev)].e = "cbm_get_fstype"

\* Such an inspection: the device node of the boot device does not resolve.
InspectionExited ==
    /\ last.op = "cbm_inspect_root" /\ crashed
    /\ ~host.dev_resolves /\ host.esp_dev # NULL

\* The filesystem bits of a mask
FsBits(mask) == mask \cap {CAP_EXTFS, CAP_FATFS}

\* The mask holds exactly one of UEFI and LEGACY
OneFirmware(mask) == Cardinality(mask \cap {CAP_UEFI, CAP_LEGACY}) = 1

\* C3 as stated: every SystemConfig returned by cbm_inspect_root has exactly
\* one of UEFI and LEGACY in its mask, and when it has a boot device the mask
\* has GPT and exactly one of EXTFS and FATFS.
C3_ExactlyOneFilesystemBit ==
    Inspected =>
        /\ OneFirmware(last.ret.wanted_boot_mask)
        /\ last.ret.boot_device # NULL =>
             /\ CAP_GPT \in last.ret.wanted_boot_mask
             /\ Cardinality(FsBits(last.ret.wanted_boot_mask)) = 1

\* C3 amended: every SystemConfig returned by cbm_inspect_root has exactly one
\* of UEFI and LEGACY in its mask; when it has a boot device the mask has GPT,
\* and its filesystem bits are EXTFS alone for a probed type of ext2, ext3 or
\* ext4, FATFS alone for vfat, and none for any other type; without a boot
\* device the mask has neither GPT nor a filesystem bit.
C3_MaskOfInspection ==
    Inspected =>
        /\ OneFirmware(last.ret.wanted_boot_mask)
        /\ last.ret.boot_device # NULL =>
             /\ CAP_GPT \in last.ret.wanted_boot_mask
             /\ FsBits(last.ret.wanted_boot_mask) =
                  IF host.fstype \in {"ext2", "ext3", "ext4"} THEN {CAP_EXTFS}
                  ELSE IF host.fstype = "vfat" THEN {CAP_FATFS}
                  ELSE {}
        /\ last.ret.boot_device = NULL =>
             last.ret.wanted_boot_mask \cap {CAP_GPT, CAP_EXTFS, CAP_FATFS} = {}

\* An inspection that found a boot device whose filesystem is neither ext nor
\* vfat: the mask has GPT and no filesystem bit.
C3_Witness ==
    /\ Inspected
    /\ last.ret.boot_device # NULL
    /\ host.fstype = "btrfs"
    /\ CAP_GPT \in last.ret.wanted_boot_mask
    /\ FsBits(last.ret.wanted_boot_mask) = {}

---------------------------------------------------------------------------
(* The selector: what boot_manager_set_prefix selects *)

\* boot_manager_set_prefix inspected the prefix and went on to select a backend
Selected == last.op = "set_prefix" /\ ~crashed /\ sysconfig.valid

IsGetCapabilities(x) == x.e = "get_capabilities"

\* The get_capabilities calls of the last operation, in the order made
Scan == SelectSeq(ev, IsGetCapabilities)

\* C2: the selection asks the backends for their capabilities in registry
\* order, starting with the first; every backend asked before the last one
\* lacks a bit of the wanted mask; if the last one asked holds the whole mask
\* it is the backend selected, and it reported a capability; if not, the whole
\* registry was asked, no backend is selected, the result is failure and no
\* init was called.
C2_FirstMatchSelected ==
    Selected =>
        LET wanted == sysconfig.wanted_boot_mask
            n == Len(Scan)
        IN  /\ wanted # {}
            /\ n \in 1..Len(bootman_known_loaders)
            /\ \A i \in 1..n : Scan[i].a.loader = bootman_known_loaders[i]
            /\ \A i \in 1..(n - 1) : ~(wanted \subseteq Scan[i].a.caps)
            /\ IF wanted \subseteq Scan[n].a.caps
               THEN /\ bootloader = Scan[n].a.loader
                    /\ Scan[n].a.caps # {}
               ELSE /\ n = Len(bootman_known_loaders)
                    /\ bootloader = NULL
                    /\ last.ret = FALSE
                    /\ Count(ev, "init") = 0

\* The second backend of the registry is selected although the third matches
\* the mask too, after a first backend that reported capabilities and did not
\* match.
C2_Witness ==
    /\ Selected
    /\ bootloader = "systemd"
    /\ Len(Scan) = 2
    /\ Scan[1].a.caps # {}
    /\ sysconfig.wanted_boot_mask \subseteq extlinux_get_capabilities(World).r
    /\ last.ret = TRUE

---------------------------------------------------------------------------
(* The mount broker and its two callers *)

\* boot_manager_set_default_kernel or boot_manager_list_kernels returned
BrokerCaller == last.op \in {"set_default_kernel", "list_kernels"} /\ ~crashed

\* mount_boot returned ret to the last operation
MountBootReturned(ret) ==
    \E i \in Positions(ev, "mount_boot") : ev[i].a.ret = ret

\* C1: in boot_manager_set_default_kernel and boot_manager_list_kernels,
\* mount_boot is called at most once, and umount_boot is called exactly once
\* when mount_boot returned 1, after it and on the directory it handed back,
\* and not at all when mount_boot returned 0 or -1 or was not called; no
\* umount happens outside umount_boot.
C1_UmountIffWeMounted ==
    BrokerCaller =>
        /\ Count(ev, "mount_boot") <= 1
        /\ Count(ev, "umount_boot") = IF MountBootReturned(1) THEN 1 ELSE 0
        /\ Count(ev, "umount") = Count(ev, "umount_boot")
        /\ \A i \in Positions(ev, "umount_boot") :
             \E j \in Positions(ev, "mount_boot") :
                /\ j < i
                /\ ev[i].a = ev[j].a.boot_directory
                /\ ev[i + 1] = [e |-> "umount", a |-> ev[i].a]

\* boot_manager_set_default_kernel mounted the boot device, found no kernel
\* matching the one asked for, and unmounted before it returned false.
C1_Witness ==
    /\ BrokerCaller
    /\ last.op = "set_default_kernel"
    /\ FirstMatch(last.arg.kernels, last.arg.kernel) = 0
    /\ MountBootReturned(1)
    /\ Count(ev, "umount_boot") = 1
    /\ last.ret = FALSE

\* The mount points the lookup of the boot device reported to the last
\* operation: the premounted case of mount_boot
Premounted ==
    { ev[i].a.mountpoint : i \in { j \in Positions(ev, "get_mountpoint_for_device") :
                                     ev[j].a.mountpoint # NULL } }

\* The directory mount_boot expected the boot device on: the one it asked
\* cbm_system_is_mounted about
ExpectedBootDir == ev[CHOOSE i \in Positions(ev, "is_mounted") : TRUE].a

\* C8 as stated: when the expected boot directory is not a mount point and the
\* boot device is mounted at M, mount_boot sets abs_bootdir to M, returns 0
\* handing M to the caller, and issues no mount.
C8_AdoptionHandsBackMountpoint ==
    BrokerCaller =>
        \A M \in Premounted :
            /\ abs_bootdir = M
            /\ \E i \in Positions(ev, "mount_boot") :
                  ev[i].a = [ret |-> 0, boot_directory |-> M]
            /\ Count(ev, "mount") = 0

\* C8 amended: when the expected boot directory is not a mount point and the
\* boot device is mounted at M, mount_boot sets abs_bootdir to M, re-initialises
\* the backend under M and issues no mount; if the re-initialisation succeeds
\* it returns 0 and hands the caller the expected boot directory, not M; if it
\* fails it returns -1 and hands back nothing.
C8_AdoptionHandsBackExpectedDir ==
    BrokerCaller =>
        \A M \in Premounted :
            /\ abs_bootdir = M
            /\ Count(ev, "mount") = 0
            /\ Count(ev, "destroy") >= 1 /\ Count(ev, "init") = 1
            /\ \E i \in Positions(ev, "mount_boot") :
                  ev[i].a = IF BackendInitialized(World)
                            THEN [ret |-> 0, boot_directory |-> ExpectedBootDir]
                            ELSE [ret |-> -1, boot_directory |-> NULL]

\* The boot device was found mounted away from the expected boot directory:
\* mount_boot took that mount point as abs_bootdir and returned 0 with the
\* expected directory.
C8_Witness ==
    /\ BrokerCaller
    /\ Premounted = {"/mnt/esp"}
    /\ abs_bootdir = "/mnt/esp"
    /\ MountBootReturned(0)
    /\ ExpectedBootDir = "/boot"
    /\ Count(ev, "mount") = 0

\* The events of the broker and of a backend re-initialisation
BrokerEvents ==
    { "mount_boot", "is_mounted", "get_mountpoint_for_device", "mount",
      "umount_boot", "umount", "init", "destroy" }

\* C9: when the wanted mask holds LEGACY, boot_manager_set_default_kernel and
\* boot_manager_list_kernels ask nothing of the mount table, mount and unmount
\* nothing, leave abs_bootdir and the mounts as they were and do not
\* re-initialise the backend; they go on as after an AlreadyMounted: with a
\* backend selected and kernels enumerated, list_kernels asks the backend for
\* its default kernel, and set_default_kernel hands a matching kernel to the
\* backend and returns the backend's answer.
C9_LegacyShortCircuit ==
    [][ ( /\ CAP_LEGACY \in sysconfig.wanted_boot_mask
          /\ last'.op \in {"set_default_kernel", "list_kernels"}
          /\ ~crashed' )
        => /\ abs_bootdir' = abs_bootdir
           /\ mounts' = mounts
           /\ gen_inited' = gen_inited
           /\ kernel_queue' = kernel_queue
           /\ base_path' = base_path
           /\ \A i \in 1..Len(ev') : ev'[i].e \notin BrokerEvents
           /\ ( /\ bootloader # NULL
                /\ cbm_is_sysconfig_sane(sysconfig)
                /\ Len(last'.arg.kernels) > 0 )
              => IF last'.op = "list_kernels"
                 THEN Count(ev', "get_default_kernel") = 1
                 ELSE IF FirstMatch(last'.arg.kernels, last'.arg.kernel) # 0
                 THEN /\ Count(ev', "set_default_kernel") = 1
                      /\ \A i \in Positions(ev', "set_default_kernel") :
                            ev'[i].a = last'.arg.kernel
                 ELSE /\ Count(ev', "set_default_kernel") = 0
                      /\ last'.ret = FALSE
      ]_vars

\* On a legacy host whose boot device is mounted away from the boot directory,
\* boot_manager_set_default_kernel set the default without asking the broker.
C9_Witness ==
    /\ BrokerCaller
    /\ last.op = "set_default_kernel"
    /\ CAP_LEGACY \in sysconfig.wanted_boot_mask
    /\ sysconfig.boot_device # NULL
    /\ mounts["/mnt/esp"] = sysconfig.boot_device
    /\ abs_bootdir = NULL
    /\ Count(ev, "set_default_kernel") = 1
    /\ last.ret = TRUE

---------------------------------------------------------------------------
(* boot_manager_modify_bootloader *)

\* boot_manager_modify_bootloader returned, with a backend selected, a sane
\* sysconfig and exactly one of INSTALL, UPDATE and REMOVE in the flags
ModifyCall ==
    /\ last.op = "modify_bootloader" /\ ~crashed
    /\ bootloader # NULL /\ cbm_is_sysconfig_sane(sysconfig)
    /\ Cardinality(last.arg.flags \cap {OP_INSTALL, OP_UPDATE, OP_REMOVE}) = 1

\* The backend actions of the last operation: how many install, update and
\* remove calls
ActionsDispatched ==
    [ a \in {"install", "update", "remove"} |-> Count(ev, a) ]

NoAction == [ a \in {"install", "update", "remove"} |-> 0 ]

OnlyAction(name) == [ a \in {"install", "update", "remove"} |-> IF a = name THEN 1 ELSE 0 ]

\* What the claim says of a call with these flags: the single action, called
\* when NO_CHECK is set or the backend needs it (always for REMOVE), whose
\* answer is the result; otherwise no action and success.
DispatchedAsFlagsSay ==
    LET checked == OP_NO_CHECK \notin last.arg.flags /\ ~last.arg.needs
        action == IF OP_INSTALL \in last.arg.flags THEN "install"
                  ELSE IF OP_UPDATE \in last.arg.flags THEN "update"
                  ELSE "remove"
    IN  IF action # "remove" /\ checked
        THEN ActionsDispatched = NoAction /\ last.ret = TRUE
        ELSE ActionsDispatched = OnlyAction(action) /\ last.ret = last.arg.answer

\* C10 as stated: boot_manager_modify_bootloader with a selected backend and a
\* sane sysconfig calls install for INSTALL iff NO_CHECK is set or
\* needs_install, update for UPDATE iff NO_CHECK is set or needs_update, remove
\* for REMOVE always, no other action, and returns the action's result, or
\* success when no action was due.
C10_DispatchAlways == ModifyCall => DispatchedAsFlagsSay

\* C10 amended: boot_manager_modify_bootloader first re-initialises the backend
\* under the current boot directory; when that fails it returns false and
\* calls no backend action; when it succeeds it dispatches as the claim says.
C10_DispatchAfterReinit ==
    ModifyCall =>
        /\ Count(ev, "init") = 1
        /\ IF BackendInitialized(World)
           THEN DispatchedAsFlagsSay
           ELSE /\ ActionsDispatched = NoAction
                /\ Count(ev, "needs_install") + Count(ev, "needs_update") = 0
                /\ last.ret = FALSE

\* INSTALL without NO_CHECK on a backend that needs no install: the backend
\* was asked, install was not called, the result is success.
C10_Witness ==
    /\ ModifyCall
    /\ last.arg.flags = {OP_INSTALL}
    /\ ~last.arg.needs
    /\ BackendInitialized(World)
    /\ Count(ev, "needs_install") = 1
    /\ ActionsDispatched = NoAction
    /\ last.ret = TRUE

\* The flags the interface defines: exactly one of INSTALL, UPDATE and REMOVE,
\* optionally with NO_CHECK, and no other bit.
WellFormedFlags(flags) ==
    (flags \ {OP_NO_CHECK}) \in { {OP_INSTALL}, {OP_UPDATE}, {OP_REMOVE} }

\* C11 as stated: boot_manager_modify_bootloader rejects every flags value
\* that is not exactly one of INSTALL, UPDATE, REMOVE optionally with NO_CHECK
\* (no operation bit, several operation bits, or an unknown bit): it returns
\* failure and calls none of the backend's install, update and remove.
C11_MalformedFlagsRejected ==
    (last.op = "modify_bootloader" /\ ~crashed /\ ~WellFormedFlags(last.arg.flags))
        => (last.ret = FALSE /\ ActionsDispatched = NoAction)

\* What the code does hold: flags with none of the three operation bits are
\* rejected without a backend action.
C11_NoOperationBitRejected ==
    (last.op = "modify_bootloader" /\ ~crashed
       /\ last.arg.flags \cap {OP_INSTALL, OP_UPDATE, OP_REMOVE} = {})
        => (last.ret = FALSE /\ ActionsDispatched = NoAction)

---------------------------------------------------------------------------
(* The freestanding initrd reconciler *)

\* The directory boot_manager_remove_initrd_freestanding listed
ListedDir == ev[CHOOSE i \in Positions(ev, "opendir") : TRUE].a

\* Every freestanding-* entry of the directory d is a key of the map, and
\* every key of the map is a regular file of d.
Reconciled(d) ==
    /\ \A n \in TgtNames :
          (n \in { FreestandingKey(b) : b \in BaseNames } /\ bootfs[d].ents[n].kind # "none")
              => \E i \in 1..Len(initrd_freestanding) : initrd_freestanding[i].key = n
    /\ \A i \in 1..Len(initrd_freestanding) :
          /\ initrd_freestanding[i].key \in TgtNames
          /\ bootfs[d].ents[initrd_freestanding[i].key].kind = "reg"

\* boot_manager_copy_initrd_freestanding has just succeeded
CopySucceeded ==
    last.op = "copy_initrd_freestanding" /\ ~crashed /\ last.ret = TRUE

\* boot_manager_remove_initrd_freestanding has just succeeded
RemoveSucceeded ==
    last.op = "remove_initrd_freestanding" /\ ~crashed /\ last.ret = TRUE

\* C12: when boot_manager_copy_initrd_freestanding succeeds and
\* boot_manager_remove_initrd_freestanding then succeeds with the same map, on
\* a legacy backend or a UEFI backend with a kernel destination, every
\* freestanding-* entry of the target directory is a key of the map and every
\* key of the map is a file of the target directory.
C12_CopyThenRemoveReconciles ==
    [][ (CopySucceeded /\ RemoveSucceeded') => Reconciled(ListedDir)' ]_vars

\* A remove after a copy took an orphan out of the kernel destination of a
\* UEFI backend and left the initrd of the map in place.
C12_Witness ==
    /\ RemoveSucceeded
    /\ CAP_UEFI \in sysconfig.wanted_boot_mask
    /\ ListedDir = "/boot" \o KernelDst
    /\ Count(ev, "unlink") = 1
    /\ Len(initrd_freestanding) > 0
    /\ Reconciled(ListedDir)
    /\ bootfs[ListedDir].ents["kernel-1"].kind = "reg"

---------------------------------------------------------------------------
(* The extlinux backend: the queue and the configuration file *)

\* No two kernels of the queue q have the same source.path
NoTwoSamePath(q) ==
    \A i, j \in 1..Len(q) : q[i].source_path = q[j].source_path => i = j

\* A kernel of source.path p is in the queue q
Queued(q, p) == \E i \in 1..Len(q) : q[i].source_path = p

\* C4: the extlinux queue never holds two kernels of the same source.path;
\* install_kernel returns success and leaves a kernel of the given source.path
\* queued; it leaves the queue as it was when such a kernel was queued already,
\* so that of two install_kernel(K) in succession the second changes nothing.
C4_InstallKernelIdempotent ==
    [][ /\ NoTwoSamePath(kernel_queue'.arr)
        /\ (last'.op = "install_kernel" /\ ~crashed') =>
             /\ last'.ret = TRUE
             /\ Queued(kernel_queue'.arr, last'.arg.source_path)
             /\ Queued(kernel_queue.arr, last'.arg.source_path)
                  => kernel_queue' = kernel_queue
             /\ (last.op = "install_kernel" /\ last.arg = last'.arg)
                  => kernel_queue' = kernel_queue /\ last.ret = TRUE
      ]_vars

\* install_kernel was given a second record of a kernel file that is queued,
\* with two kernels in the queue: the queue kept the first record only.
C4_Witness ==
    /\ last.op = "install_kernel" /\ ~crashed
    /\ last.arg = Reenumerated(KernelOf(1))
    /\ Len(kernel_queue.arr) = 2
    /\ Queued(kernel_queue.arr, last.arg.source_path)
    /\ \A i \in 1..Len(kernel_queue.arr) : kernel_queue.arr[i] # last.arg
    /\ last.ret = TRUE

\* extlinux set_default_kernel(K) returned success for a non-null K
DefaultSet ==
    /\ last.op = "set_default_kernel" /\ ~crashed
    /\ last.arg # NullKernel
    /\ last.ret = TRUE

\* The lines of the extlinux.cfg under base_path
Config == files[Canonical(base_path)].text

\* The positions of the lines of Config equal to line
LinesEqual(line) == { i \in 1..Len(Config) : Config[i] = line }

\* The positions of the DEFAULT lines of Config, whatever kernel they name
DefaultLines ==
    { i \in 1..Len(Config) :
        \E k \in BackendKernels : Config[i] = "DEFAULT " \o k.legacy_path }

\* C5 as stated: whenever set_default_kernel(K) with a non-null K succeeds,
\* whatever the queue holds, the config has exactly one DEFAULT line naming
\* K.target.legacy_path, before the LABEL line of K.
C5_DefaultAlwaysEmitted ==
    DefaultSet =>
        /\ Cardinality(LinesEqual("DEFAULT " \o last.arg.legacy_path)) = 1
        /\ \A i \in LinesEqual("DEFAULT " \o last.arg.legacy_path) :
             \E j \in LinesEqual("LABEL " \o last.arg.legacy_path) : i < j

\* C5 amended: whenever set_default_kernel(K) with a non-null K succeeds and a
\* kernel of K's source.path is in the queue, the config has exactly one
\* DEFAULT line, which names that kernel's legacy_path and stands right before
\* its only LABEL line; when no kernel of K's source.path is in the queue the
\* call succeeds all the same and the config has no DEFAULT line.
C5_DefaultOfQueuedKernel ==
    DefaultSet =>
        /\ files[Canonical(base_path)].exists
        /\ \A n \in 1..Len(kernel_queue.arr) :
             kernel_queue.arr[n].source_path = last.arg.source_path =>
                LET path == kernel_queue.arr[n].legacy_path IN
                /\ DefaultLines = LinesEqual("DEFAULT " \o path)
                /\ Cardinality(DefaultLines) = 1
                /\ Cardinality(LinesEqual("LABEL " \o path)) = 1
                /\ \A i \in DefaultLines : Config[i + 1] = "LABEL " \o path
        /\ ~Queued(kernel_queue.arr, last.arg.source_path) => DefaultLines = {}

\* The second of two queued kernels was made the default: its DEFAULT line
\* comes after the stanza of the first.
C5_Witness ==
    /\ DefaultSet
    /\ Len(kernel_queue.arr) = 2
    /\ kernel_queue.arr[2].source_path = last.arg.source_path
    /\ \E i \in DefaultLines :
          /\ i > 1
          /\ Config[i] = "DEFAULT " \o last.arg.legacy_path
          /\ Config[i + 1] = "LABEL " \o last.arg.legacy_path

\* extlinux set_default_kernel returned success, for a kernel or for none
ConfigWritten ==
    /\ last.op = "set_default_kernel" /\ ~crashed
    /\ last.ret = TRUE

\* The names of seq joined by commas
RECURSIVE CommaJoined(_)
CommaJoined(seq) ==
    IF seq = << >> THEN ""
    ELSE IF Len(seq) = 1 THEN Head(seq)
    ELSE Head(seq) \o "," \o CommaJoined(Tail(seq))

\* The initrd list of the kernel k: its own initrd, then the names
InitrdList(k, names) ==
    (IF k.initrd_path # NULL THEN << k.initrd_path >> ELSE << >>) \o names

\* The file names of the freestanding initrds, and their keys, in iteration order
FreestandingFiles == [ i \in 1..Len(initrd_freestanding) |-> initrd_freestanding[i].val ]
FreestandingKeys == [ i \in 1..Len(initrd_freestanding) |-> initrd_freestanding[i].key ]

\* The INITRD lines a config of the model may hold
InitrdLines ==
    { "  INITRD " \o CommaJoined(InitrdList(k, n)) :
        k \in BackendKernels, n \in {FreestandingFiles, FreestandingKeys, << >>} }

\* The stanza of every queued kernel has, right after its KERNEL line, the
\* INITRD line listing the kernel's own initrd and then the names, and no
\* INITRD line when that list is empty.
InitrdLinesList(names) ==
    \A n \in 1..Len(kernel_queue.arr) :
        LET k == kernel_queue.arr[n]
            list == InitrdList(k, names)
        IN  /\ Cardinality(LinesEqual("  KERNEL " \o k.legacy_path)) = 1
            /\ \A i \in LinesEqual("  KERNEL " \o k.legacy_path) :
                  IF list = << >>
                  THEN Config[i + 1] \notin InitrdLines
                  ELSE /\ Config[i + 1] = "  INITRD " \o CommaJoined(list)
                       /\ Config[i + 2] \notin InitrdLines

\* C13 as stated: the INITRD line of each queued kernel lists the kernel's own
\* target.initrd_path and then every freestanding initrd by its file name
\* (fs.img appears as 'fs.img'), comma-joined, and is omitted exactly when the
\* list is empty.
C13_InitrdListsFileNames == ConfigWritten => InitrdLinesList(FreestandingFiles)

\* C13 amended: the INITRD line of each queued kernel lists the kernel's own
\* target.initrd_path and then every freestanding initrd by its key in the map
\* (fs.img appears as 'freestanding-fs.img'), comma-joined with no leading or
\* trailing comma, and is omitted exactly when the list is empty.
C13_InitrdListsKeys == ConfigWritten => InitrdLinesList(FreestandingKeys)

\* Two kernels queued, the second with an initrd of its own, one freestanding
\* initrd fs1.img: the lines of the two stanzas.
C13_Witness ==
    /\ ConfigWritten
    /\ Len(kernel_queue.arr) = 2
    /\ kernel_queue.arr[1].initrd_path = NULL
    /\ kernel_queue.arr[2].initrd_path = "initrd-2"
    /\ FreestandingFiles = << "fs1.img" >>
    /\ LinesEqual("  INITRD freestanding-fs1.img") # {}
    /\ LinesEqual("  INITRD initrd-2,freestanding-fs1.img") # {}

\* A LABEL line of a config of the model
IsLabelLine(line) == \E k \in BackendKernels : line = "LABEL " \o k.legacy_path

\* The LABEL lines the queue q stands for, in queue order
LabelsOf(q) == [ i \in 1..Len(q) |-> "LABEL " \o q[i].legacy_path ]

\* The queue after install_kernel(k) on the queue q: k is the next distinct
\* kernel when no kernel of its source.path was installed before.
FirstQueued(q, k) ==
    IF \E i \in 1..Len(q) : q[i].source_path = k.source_path THEN q ELSE Append(q, k)

\* The queue is the sequence of the distinct kernels installed since the last
\* init, in the order they were first installed: init empties it, install_kernel
\* adds a kernel of a new source.path at the end, nothing else changes it.
QueueIsInstallOrder ==
    /\ (last'.op = "init" /\ ~crashed') => kernel_queue'.arr = << >>
    /\ (last'.op = "install_kernel" /\ ~crashed' /\ ~kernel_queue.null) =>
          kernel_queue'.arr = FirstQueued(kernel_queue.arr, last'.arg)
    /\ (last'.op \in {"remove_kernel", "set_default_kernel"} /\ ~crashed') =>
          kernel_queue' = kernel_queue

\* The config has one stanza per queued kernel, in queue order: its LABEL
\* lines are those of the queue, each followed by the KERNEL line of the same
\* kernel.
StanzaPerQueuedKernel ==
    ConfigWritten =>
        /\ SelectSeq(Config, IsLabelLine) = LabelsOf(kernel_queue.arr)
        /\ \A i \in 1..Len(Config) :
              IsLabelLine(Config[i]) =>
                 \E k \in BackendKernels :
                    /\ Config[i] = "LABEL " \o k.legacy_path
                    /\ Config[i + 1] = "  KERNEL " \o k.legacy_path

\* C14: the config has one LABEL/KERNEL/[INITRD]/APPEND stanza per queued
\* kernel, in the order the kernels were first queued by install_kernel since
\* the last init: the i-th LABEL names the legacy_path of the i-th distinct
\* (by source.path) kernel installed.
C14_StanzasInInstallOrder ==
    /\ [][QueueIsInstallOrder]_vars
    /\ [](StanzaPerQueuedKernel)

\* The second kernel was installed first, then the first, then the second
\* again: the config has the stanza of the second kernel before that of the
\* first.
C14_Witness ==
    /\ ConfigWritten
    /\ Len(kernel_queue.arr) = 2
    /\ kernel_queue.arr[1] = KernelOf(2)
    /\ kernel_queue.arr[2].source_path = KernelOf(1).source_path
    /\ SelectSeq(Config, IsLabelLine) = << "LABEL kernel-2", "LABEL kernel-1" >>

\* C15: extlinux set_default_kernel(none) emits a config whose first line is
\* 'TIMEOUT 100' and that has no DEFAULT line, and which is exactly that one
\* line when no kernel is queued; with a non-null default the config has no
\* TIMEOUT line.
C15_TimeoutIffNoDefault ==
    ConfigWritten =>
        IF last.arg = NullKernel
        THEN /\ Len(Config) >= 1 /\ Config[1] = "TIMEOUT 100"
             /\ DefaultLines = {}
             /\ kernel_queue.arr = << >> => Config = << "TIMEOUT 100" >>
        ELSE LinesEqual("TIMEOUT 100") = {}

\* set_default_kernel(none) with two kernels queued: the timeout line, then
\* the stanzas.
C15_Witness ==
    /\ ConfigWritten
    /\ last.arg = NullKernel
    /\ Len(kernel_queue.arr) = 2
    /\ Config[1] = "TIMEOUT 100"
    /\ Config[2] = "LABEL " \o kernel_queue.arr[1].legacy_path

IsSynthesized(x) == x.e = "synthesized"

\* C6: when the text extlinux set_default_kernel synthesizes equals the
\* content of extlinux.cfg, the call returns success, writes no file, calls no
\* sync and leaves every file as it was; and a set_default_kernel(K) right
\* after a successful set_default_kernel(K) writes nothing and leaves the file
\* as the first left it, the two together writing at most once.
C6_WriteElision ==
    [][ (last'.op = "set_default_kernel" /\ ~crashed') =>
          /\ \A i \in Positions(ev', "synthesized") :
               file_get_text(World, base_path) = FileOf(ev'[i].a) =>
                  /\ last'.ret = TRUE
                  /\ files' = files
                  /\ Count(ev', "file_set_text") = 0
                  /\ Count(ev', "sync") = 0
          /\ ( /\ last.op = "set_default_kernel" /\ last.arg = last'.arg
               /\ last.ret = TRUE )
             => /\ files' = files
                /\ last'.ret = TRUE
                /\ Count(ev', "file_set_text") = 0
                /\ Count(ev, "file_set_text") + Count(ev', "file_set_text") <= 1
      ]_vars

\* set_default_kernel found the file holding the text it synthesized for a
\* queue of two kernels, and wrote nothing.
C6_Witness ==
    /\ last.op = "set_default_kernel" /\ ~crashed
    /\ last.arg # NullKernel
    /\ Len(kernel_queue.arr) = 2
    /\ Len(SelectSeq(ev, IsSynthesized)) = 1
    /\ files[Canonical(base_path)] = FileOf(SelectSeq(ev, IsSynthesized)[1].a)
    /\ Count(ev, "file_set_text") = 0
    /\ Count(ev, "sync") = 0
    /\ last.ret = TRUE

\* C7: in extlinux set_default_kernel every successful write of extlinux.cfg
\* is followed at once by a sync and there is no other sync; a failed write is
\* followed by no sync and the call returns false; a successful install or
\* update ends with its one sync, after the extlinux command, and a failed one
\* calls no sync.
C7_SyncAfterWrite ==
    /\ (last.op = "set_default_kernel" /\ ~crashed) =>
          /\ \A i \in Positions(ev, "file_set_text") :
               IF ev[i].a
               THEN i < Len(ev) /\ ev[i + 1].e = "sync" /\ last.ret = TRUE
               ELSE Count(ev, "sync") = 0 /\ last.ret = FALSE
          /\ \A i \in Positions(ev, "sync") :
               i > 1 /\ ev[i - 1] = [e |-> "file_set_text", a |-> TRUE]
    /\ (last.op \in {"install", "update"} /\ ~crashed) =>
          IF last.ret
          THEN /\ Positions(ev, "sync") = {Len(ev)}
               /\ ev[Len(ev) - 1].e = "system"
          ELSE Count(ev, "sync") = 0

\* A write of extlinux.cfg failed and left half a file: no sync, and
\* set_default_kernel returned false.
C7_Witness ==
    /\ last.op = "set_default_kernel" /\ ~crashed
    /\ \E i \in Positions(ev, "file_set_text") : ~ev[i].a
    /\ files[Canonical(base_path)] = Partial
    /\ Count(ev, "sync") = 0
    /\ last.ret = FALSE

---------------------------------------------------------------------------
(* extlinux_install: the MBR copy *)

\* extlinux install or update returned
InstallCall == last.op \in {"install", "update"} /\ ~crashed

\* The files extlinux_install opened, and how often it closed the file f
OpenedFiles == { ev[i].a.file : i \in { j \in Positions(ev, "open") : ev[j].a.ok } }
Closes(f) == Cardinality({ i \in Positions(ev, "close") : ev[i].a = f })

\* An open failed, or sendfile moved another count than 440
CopyFailed ==
    \/ \E i \in Positions(ev, "open") : ~ev[i].a.ok
    \/ \E i \in Positions(ev, "sendfile") : ev[i].a # CBM_MBR_SYSLINUX_SIZE

\* C16: a successful extlinux install moved exactly 440 bytes from gptmbr.bin
\* to the parent disk, in one sendfile; when opening either file fails or
\* sendfile moves fewer than 440 bytes, install returns failure, runs no
\* installer command and calls no sync; and in every case each descriptor it
\* opened is closed, once.
C16_MbrCopy ==
    InstallCall =>
        /\ last.ret = TRUE =>
              /\ OpenedFiles = {"disk", "gptmbr"}
              /\ Count(ev, "sendfile") = 1
              /\ \A i \in Positions(ev, "sendfile") : ev[i].a = CBM_MBR_SYSLINUX_SIZE
              /\ mbr = CBM_MBR_SYSLINUX_SIZE
        /\ CopyFailed =>
              /\ last.ret = FALSE
              /\ Count(ev, "system") = 0
              /\ Count(ev, "sync") = 0
        /\ \A f \in {"disk", "gptmbr"} : Closes(f) = (IF f \in OpenedFiles THEN 1 ELSE 0)

\* sendfile moved 100 bytes: both descriptors were closed, no command, no
\* sync, failure.
C16_Witness ==
    /\ InstallCall
    /\ \E i \in Positions(ev, "sendfile") : ev[i].a = 100
    /\ OpenedFiles = {"disk", "gptmbr"}
    /\ Closes("disk") = 1 /\ Closes("gptmbr") = 1
    /\ Count(ev, "system") = 0
    /\ last.ret = FALSE

---------------------------------------------------------------------------
(* The life cycle of the extlinux backend *)

\* The pointers extlinux.c keeps, and whether each holds an allocation
Held ==
    [ kernel_queue |-> ~kernel_queue.null,
      extlinux_cmd |-> extlinux_cmd # NULL,
      base_path |-> base_path # NULL ]

\* How often the last operation freed the pointer r
Frees(r) == Cardinality({ i \in Positions(ev, "free") : ev[i].a = r })

\* A destroy step frees each pointer that held an allocation once and no
\* other, and leaves no queue, no command and no base path.
DestroyReleasesAll ==
    (last'.op = "destroy") =>
        /\ ~crashed'
        /\ \A r \in DOMAIN Held : Frees(r)' = (IF Held[r] THEN 1 ELSE 0)
        /\ \A r \in DOMAIN Held : ~Held'[r]
        /\ kernel_queue' = NullQueue

\* An init step right after a destroy frees nothing and leaves an empty
\* queue; it fails only when the copy of the boot directory cannot be
\* allocated, and otherwise succeeds with a command and a base path.
InitAfterDestroy ==
    (last.op = "destroy" /\ last'.op = "init") =>
        /\ ~crashed'
        /\ Count(ev', "free") = 0
        /\ kernel_queue' = [null |-> FALSE, arr |-> << >>]
        /\ last'.ret = (last'.arg # "ENOMEM")
        /\ last'.ret = TRUE => Held'["base_path"] /\ Held'["extlinux_cmd"]
        /\ last'.ret = FALSE => ~Held'["base_path"] /\ ~Held'["extlinux_cmd"]

\* C17: extlinux destroy, called before any init, after a failed or a
\* successful init, or several times in a row, leaves the backend with no
\* queue, no cached command and no cached base path and releases each
\* resource that was held exactly once; an init that follows succeeds with an
\* empty queue (unless the process is out of memory).
C17_DestroyAnywhere == [][DestroyReleasesAll /\ InitAfterDestroy]_vars

\* A destroy after an init that failed for lack of memory, itself after an
\* init that succeeded: the queue and the command of the first init are
\* released, there is no base path to release.
C17_Witness ==
    /\ last.op = "destroy" /\ ~crashed
    /\ Frees("kernel_queue") = 1
    /\ Frees("extlinux_cmd") = 1
    /\ Frees("base_path") = 0
    /\ \A r \in DOMAIN Held : ~Held[r]

---------------------------------------------------------------------------
(* The facade without a usable sysconfig *)

\* The operations of the facade that drive the backend or the mount broker
GuardedOps ==
    {"install_kernel", "remove_kernel", "set_default_kernel", "list_kernels",
     "modify_bootloader"}

\* The call recorded in l returned failure, or no list
Refused(l) == IF l.op = "list_kernels" THEN l.ret.null ELSE l.ret = FALSE

\* The operation op, called without a sane sysconfig, returns failure or none
\* and has called nothing but the enumeration of the kernel directory.
RefusesAtBoundary(op) ==
    (~cbm_is_sysconfig_sane(sysconfig) /\ last'.op = op) =>
        /\ ~crashed'
        /\ Refused(last')
        /\ \A i \in 1..Len(ev') : ev'[i].e = "get_kernels"

\* C18: every facade operation that drives the backend or the mount broker
\* refuses when sysconfig is absent or has no root device: it returns
\* failure or none without reading sysconfig, calling the mount broker or
\* calling the backend, also after a set_prefix that failed.
C18_InsaneRefused == [][\A op \in GuardedOps : RefusesAtBoundary(op)]_vars

\* The same of the operations other than list_kernels, which test
\* cbm_is_sysconfig_sane before anything else.
SaneTestedFirst == [][\A op \in GuardedOps \ {"list_kernels"} : RefusesAtBoundary(op)]_vars

\* list_kernels after a set_prefix that failed, with kernels enumerated:
\* sysconfig is NULL and is dereferenced.
ListKernelsDereferencesNull ==
    /\ last.op = "list_kernels" /\ crashed
    /\ ~sysconfig.valid
    /\ bootloader # NULL

---------------------------------------------------------------------------
(* The order of mount, backend operation and unmount in one call *)

\* The backend operation a call of the facade hands over to
BackendOpOf(op) ==
    IF op = "set_default_kernel" THEN "set_default_kernel" ELSE "get_default_kernel"

\* In the events t of one call: mount_boot once at most, then the backend
\* operation b once at most and only after a mount_boot that returned no
\* error, then umount_boot once at most and only after both.
MountOpUmount(t, b) ==
    LET M == Positions(t, "mount_boot")
        B == Positions(t, b)
        U == Positions(t, "umount_boot")
    IN  /\ Cardinality(M) <= 1 /\ Cardinality(B) <= 1 /\ Cardinality(U) <= 1
        /\ \A i \in B : \E m \in M : m < i /\ t[m].a.ret >= 0
        /\ \A i \in B : \A u \in U : i < u
        /\ \A u \in U : \E m \in M : m < u
        /\ (\E m \in M : t[m].a.ret < 0) => B = {}

\* C19: within one boot_manager_set_default_kernel or boot_manager_list_kernels
\* call on a non-legacy system the events are ordered mount_boot, backend
\* operation, umount_boot; the backend operation is never called before
\* mount_boot returned without error, never after umount_boot, and not at all
\* when mount_boot returned an error.
C19_MountOpUmountOrder ==
    ( /\ last.op \in {"set_default_kernel", "list_kernels"}
      /\ sysconfig.valid
      /\ CAP_LEGACY \notin sysconfig.wanted_boot_mask )
    => MountOpUmount(ev, BackendOpOf(last.op))

\* A set_default_kernel call on a UEFI host that mounted the boot device,
\* called the backend and unmounted.
C19_Witness ==
    /\ sysconfig.valid /\ CAP_LEGACY \notin sysconfig.wanted_boot_mask
    /\ ~crashed
    /\ last.op = "set_default_kernel"
    /\ \E m \in Positions(ev, "mount_boot") : ev[m].a.ret = 1
    /\ Count(ev, "set_default_kernel") = 1
    /\ Count(ev, "umount_boot") = 1

\* A list_kernels call on a UEFI host whose mount_boot returned an error
ListWithoutMount ==
    /\ sysconfig.valid /\ CAP_LEGACY \notin sysconfig.wanted_boot_mask
    /\ last.op = "list_kernels" /\ ~crashed
    /\ \E m \in Positions(ev, "mount_boot") : ev[m].a.ret < 0

---------------------------------------------------------------------------
(* cbm_inspect_root in image mode *)

\* The last operation was cbm_inspect_root in image mode
ImageInspection == last.op = "cbm_inspect_root" /\ last.arg.image_mode

\* C20: in image mode cbm_inspect_root never consults the sysfs firmware path
\* and never calls get_boot_device; its result has the mask UEFI alone and no
\* boot device when legacy discovery finds nothing, and a mask with LEGACY
\* and GPT and without UEFI, with the boot device set, when legacy discovery
\* finds a device.
C20_ImageModeInspection ==
    ImageInspection =>
        /\ Count(ev, "nc_file_exists") = 0
        /\ Count(ev, "get_boot_device") = 0
        /\ Inspected =>
             /\ Count(ev, "get_legacy_boot_device") = 1
             /\ host.legacy_dev = NULL =>
                  /\ last.ret.wanted_boot_mask = {CAP_UEFI}
                  /\ last.ret.boot_device = NULL
             /\ host.legacy_dev # NULL =>
                  /\ {CAP_LEGACY, CAP_GPT} \subseteq last.ret.wanted_boot_mask
                  /\ CAP_UEFI \notin last.ret.wanted_boot_mask
                  /\ last.ret.boot_device # NULL

\* An image mode inspection on a host with EFI firmware and an ESP and no
\* legacy boot device: neither is looked at, the mask is UEFI alone.
C20_Witness ==
    /\ ImageInspection /\ Inspected
    /\ host.sysfs_efi /\ host.esp_dev # NULL /\ host.legacy_dev = NULL
    /\ last.ret.wanted_boot_mask = {CAP_UEFI}
    /\ last.ret.boot_device = NULL

\* An image mode inspection on a host with EFI firmware and a legacy boot
\* device: the legacy device is taken.
ImageInspectionFindsLegacy ==
    /\ ImageInspection /\ Inspected
    /\ host.sysfs_efi /\ host.legacy_dev # NULL
    /\ CAP_LEGACY \in last.ret.wanted_boot_mask
    /\ last.ret.boot_device # NULL

---------------------------------------------------------------------------
(* cbm_inspect_root on a native UEFI system *)

\* The last operation was cbm_inspect_root outside image mode on a host whose
\* sysfs has firmware/efi
NativeInspection ==
    last.op = "cbm_inspect_root" /\ ~last.arg.image_mode /\ host.sysfs_efi

\* C21: outside image mode on a native UEFI host cbm_inspect_root does not
\* call legacy discovery and its mask has UEFI and not LEGACY whatever
\* legacy device the host has; with an ESP on a vfat device the mask is
\* exactly UEFI, GPT, FATFS and boot_device is the real path of the ESP.
C21_NativeUefiInspection ==
    NativeInspection =>
        /\ Count(ev, "get_legacy_boot_device") = 0
        /\ Inspected =>
             /\ CAP_UEFI \in last.ret.wanted_boot_mask
             /\ CAP_LEGACY \notin last.ret.wanted_boot_mask
             /\ (host.esp_dev # NULL /\ host.fstype = "vfat") =>
                  /\ last.ret.wanted_boot_mask = {CAP_UEFI, CAP_GPT, CAP_FATFS}
                  /\ last.ret.boot_device = "/dev/sda1"

\* A native inspection on a host that has a legacy boot device too, and an
\* ESP on vfat: the ESP is taken and resolved.
C21_Witness ==
    /\ NativeInspection /\ Inspected
    /\ host.legacy_dev # NULL
    /\ host.esp_dev # NULL /\ host.fstype = "vfat"
    /\ last.ret.wanted_boot_mask = {CAP_UEFI, CAP_GPT, CAP_FATFS}
    /\ last.ret.boot_device = "/dev/sda1"

---------------------------------------------------------------------------
(* boot_manager_set_default_kernel without a matching kernel *)

\* No kernel of the enumeration has the ktype, version and release of kernel
NoneMatches(kernels, kernel) ==
    \A i \in 1..Len(kernels) :
        \/ kernels[i].ktype # kernel.ktype
        \/ kernels[i].version # kernel.version
        \/ kernels[i].release # kernel.release

\* C22: a boot_manager_set_default_kernel call whose enumeration is empty or
\* has no kernel matching the caller's by (ktype, version, release) returns
\* false, does not call the backend's set_default_kernel and leaves the
\* bootloader config unchanged; with an empty enumeration no mount is
\* attempted, and without a match the boot directory is unmounted when
\* mount_boot had mounted it.
C22_NoMatchFails ==
    [][ ( /\ last'.op = "set_default_kernel"
          /\ NoneMatches(last'.arg.kernels, last'.arg.kernel) )
        => /\ ~crashed'
           /\ last'.ret = FALSE
           /\ Count(ev', "set_default_kernel") = 0
           /\ files' = files
           /\ Len(last'.arg.kernels) = 0 =>
                /\ Count(ev', "mount_boot") = 0
                /\ Count(ev', "mount") = 0
           /\ (\E m \in Positions(ev', "mount_boot") : ev'[m].a.ret = 1)
                => /\ Count(ev', "umount_boot") = 1
                   /\ Positions(ev', "umount_boot") = {Len(ev') - 1}
      ]_vars

\* A call with kernels enumerated and none matching, for which mount_boot
\* mounted the boot device: it was unmounted and the call returned false.
C22_Witness ==
    /\ last.op = "set_default_kernel" /\ ~crashed
    /\ Len(last.arg.kernels) > 0
    /\ NoneMatches(last.arg.kernels, last.arg.kernel)
    /\ \E m \in Positions(ev, "mount_boot") : ev[m].a.ret = 1
    /\ Count(ev, "umount_boot") = 1
    /\ last.ret = FALSE

---------------------------------------------------------------------------
(* The kernel boot_manager_set_default_kernel hands to the backend *)

\* The last call was a set_default_kernel that reached the backend
BackendAsked ==
    /\ last.op = "set_default_kernel"
    /\ Count(ev, "set_default_kernel") = 1

\* The argument of the backend's set_default_kernel in the last call
BackendArg == ev[CHOOSE i \in Positions(ev, "set_default_kernel") : TRUE].a

\* C23: boot_manager_set_default_kernel calls the backend's
\* set_default_kernel with the matched kernel, the element of the enumeration
\* that equals the caller's on (ktype, version, release), also when the
\* caller's record carries another source.path.
C23_BackendGetsMatched ==
    BackendAsked =>
        BackendArg = last.arg.kernels[FirstMatch(last.arg.kernels, last.arg.kernel)]

\* What the code does: the backend gets the caller's record.
BackendGetsCallers == BackendAsked => BackendArg = last.arg.kernel

\* The backend was handed a record whose source.path is that of no
\* enumerated kernel.
BackendGotForeignPath ==
    /\ BackendAsked
    /\ \A i \in 1..Len(last.arg.kernels) :
          last.arg.kernels[i].source_path # BackendArg.source_path

---------------------------------------------------------------------------
(* extlinux install: the steps and the installer command *)

\* The installer command for the boot directory d of the prefix "/"
InstallerCmd(flag, d) == "/" \o "/usr/bin/extlinux" \o flag \o d \o " &> /dev/null"

\* The command extlinux_init fixes while ldlinux.sys is, or is not, in d
CmdFor(d, present) == InstallerCmd(IF present THEN " -U " ELSE " -i ", d)

\* The commands the last call ran
CommandsRun(t) == { t[i].a : i \in Positions(t, "system") }

\* In the events t of one install: sendfile, then the installer command, then
\* sync, each once at most; the command only after a sendfile of the whole
\* MBR code, sync only after the command.
CopyCommandSync(t) ==
    /\ Count(t, "sendfile") <= 1 /\ Count(t, "system") <= 1 /\ Count(t, "sync") <= 1
    /\ \A c \in Positions(t, "system") :
         \E m \in Positions(t, "sendfile") : m < c /\ t[m].a = CBM_MBR_SYSLINUX_SIZE
    /\ \A y \in Positions(t, "sync") : \E c \in Positions(t, "system") : c < y

\* What the command's exit status does to a call that ran it; before any
\* init there is no command, and system(NULL) answers non-zero.
ExitStatusDecides(l, t) ==
    Count(t, "system") = 1 =>
        IF l.arg.sys_rc # 0 \/ NULL \in CommandsRun(t)
        THEN l.ret = FALSE /\ Count(t, "sync") = 0
        ELSE l.ret = TRUE /\ Count(t, "sync") = 1

\* An init step fixes the command from the presence of ldlinux.sys in the
\* boot directory at that moment.
InitFixesCommand ==
    (last'.op = "init" /\ last'.ret = TRUE) =>
        extlinux_cmd' = CmdFor(base_path', Canonical(base_path') \in ldlinux)

\* Only init changes the command; an install runs the command it found.
InstallRunsFixedCommand ==
    /\ (last'.op \in {"install", "host_ldlinux"}) => extlinux_cmd' = extlinux_cmd
    /\ (last'.op = "install" /\ ~crashed') =>
         /\ CopyCommandSync(ev')
         /\ ExitStatusDecides(last', ev')
         /\ CommandsRun(ev') \subseteq {extlinux_cmd}

\* An install or update through boot_manager_modify_bootloader runs the
\* command for the presence of ldlinux.sys at the time of the call.
ModifyRunsFreshCommand ==
    (last'.op = "modify_bootloader" /\ ~crashed' /\ OP_REMOVE \notin last'.arg.flags) =>
        /\ CopyCommandSync(ev')
        /\ ExitStatusDecides(last', ev')
        /\ CommandsRun(ev') \subseteq
             {CmdFor(base_path', Canonical(base_path') \in ldlinux)}

\* C24: extlinux install copies the MBR code, then runs the installer
\* command, then syncs; the command is the one fixed at the last init, with
\* -U iff ldlinux.sys was in the boot directory at that init and -i
\* otherwise; a non-zero exit of the command makes install fail without a
\* sync; an install through boot_manager_modify_bootloader, which
\* re-initialises the backend first, runs -U iff ldlinux.sys is there at the
\* time of that call.
C24_InstallSteps ==
    [][InitFixesCommand /\ InstallRunsFixedCommand /\ ModifyRunsFreshCommand]_vars

\* A direct install that ran -i although ldlinux.sys is in the boot directory
\* since the init, and synced.
C24_Witness ==
    /\ last.op = "install" /\ ~crashed /\ last.ret = TRUE
    /\ Canonical(base_path) \in ldlinux
    /\ CommandsRun(ev) = {CmdFor(base_path, FALSE)}
    /\ Count(ev, "sync") = 1

\* An install after an init that failed for lack of memory: the command of
\* the init before it ran, and ldlinux.sys is in the directory it names.
StaleCommandInstalled ==
    /\ last.op = "install" /\ ~crashed /\ last.ret = TRUE
    /\ base_path = NULL
    /\ CommandsRun(ev) = {CmdFor("/boot", FALSE)}
    /\ "/boot" \in ldlinux

\* An install through boot_manager_modify_bootloader that ran -U
ModifyRanUpdate ==
    /\ last.op = "modify_bootloader" /\ ~crashed /\ last.ret = TRUE
    /\ OP_INSTALL \in last.arg.flags
    /\ CommandsRun(ev) = {CmdFor(base_path, TRUE)}

\* An install whose command exited non-zero
InstallCommandFailed ==
    /\ last.op = "install" /\ ~crashed /\ last.ret = FALSE
    /\ last.arg.sys_rc # 0 /\ NULL \notin CommandsRun(ev)
    /\ Count(ev, "system") = 1 /\ Count(ev, "sync") = 0

---------------------------------------------------------------------------
(* What boot_manager_list_kernels returns *)

\* The permutations of 1..n
Perms(n) == { p \in [1..n -> 1..n] : \A i, j \in 1..n : i # j => p[i] # p[j] }

\* The last call was a boot_manager_list_kernels
Listed == last.op = "list_kernels"

\* The default the backend reported to the last call, NULL when it was not
\* asked
ReportedDefault ==
    IF Count(ev, "get_default_kernel") = 1 THEN last.arg.gen_default ELSE NULL

\* The string for the kernel k
Entry(k) ==
    IF ReportedDefault # NULL /\ k.bpath = ReportedDefault
    THEN "* " \o k.bpath ELSE "  " \o k.bpath

\* The array arr has one string per kernel of the enumeration, in an order of
\* non-increasing release, marked as Entry says.
SortedAndMarked(arr, kernels) ==
    /\ Len(arr) = Len(kernels)
    /\ \E p \in Perms(Len(kernels)) :
         /\ \A i \in 1..Len(arr) : arr[i] = Entry(kernels[p[i]])
         /\ \A i \in 1..Len(arr) - 1 :
              kernels[p[i]].release >= kernels[p[i + 1]].release

\* When mount_boot failed, no entry is marked
NoneMarkedWithoutMount ==
    (\E m \in Positions(ev, "mount_boot") : ev[m].a.ret < 0) =>
        /\ Count(ev, "get_default_kernel") = 0
        /\ \A i \in 1..Len(last.ret.arr) :
             \E k \in ListedKernels : last.ret.arr[i] = "  " \o k.bpath

\* C25 as stated: boot_manager_list_kernels returns one string per enumerated
\* kernel, in an order of non-increasing release, an entry prefixed "* " iff
\* its bpath is the default the backend reports and "  " otherwise, and no
\* entry marked when mounting fails or the backend reports no default.
C25_ListSortedAndMarked ==
    Listed =>
        /\ ~crashed /\ ~last.ret.null
        /\ SortedAndMarked(last.ret.arr, last.arg.kernels)
        /\ NoneMarkedWithoutMount

\* C25 amended: with no kernel enumerated the call returns no array, before
\* any mount and whether or not there is a sysconfig; with a kernel enumerated
\* and no sysconfig the call ends the process at the read of the mask, before
\* any mount and before the backend is asked; with a kernel enumerated and a
\* sysconfig it returns the array as stated.
C25_ListOfSomeKernels ==
    Listed =>
        IF Len(last.arg.kernels) = 0
        THEN ~crashed /\ last.ret.null /\ Len(ev) = 1
        ELSE IF ~sysconfig.valid
        THEN crashed /\ Len(ev) = 1
        ELSE /\ ~crashed /\ ~last.ret.null
             /\ SortedAndMarked(last.ret.arr, last.arg.kernels)
             /\ NoneMarkedWithoutMount

\* A list of three kernels, two of them of one release and the third, of a
\* higher release, enumerated last and listed first; the default is marked.
C25_Witness ==
    /\ Listed /\ ~crashed
    /\ Len(last.arg.kernels) = 3
    /\ last.arg.kernels[3] = KernelOf(2)
    /\ last.ret.arr[1] = "  " \o KernelOf(2).bpath
    /\ \E i \in 2..3 : last.ret.arr[i] = "* " \o KernelOf(1).bpath

\* The two kernels of one release listed in the order of the enumeration,
\* and in the other order
TieKeptOrder ==
    /\ Listed /\ ~crashed
    /\ last.arg.kernels = << KernelOf(1), SameRelease(KernelOf(1)) >>
    /\ last.ret.arr[1] = "  " \o KernelOf(1).bpath

TieOtherOrder ==
    /\ Listed /\ ~crashed
    /\ last.arg.kernels = << KernelOf(1), SameRelease(KernelOf(1)) >>
    /\ last.ret.arr[2] = "  " \o KernelOf(1).bpath

\* A list of no kernels on a facade without sysconfig: no array, no crash
ListedNothingWithoutSysconfig ==
    /\ Listed /\ ~crashed /\ ~sysconfig.valid
    /\ Len(last.arg.kernels) = 0 /\ last.ret.null

\* A list of some kernels on a facade that lost its sysconfig to a
\* boot_manager_set_prefix of a missing prefix: the process ended
ListedWithoutSysconfig ==
    /\ Listed /\ crashed /\ ~sysconfig.valid
    /\ initrd_freestanding_dir # NULL
    /\ Len(last.arg.kernels) > 0 /\ ev = << [e |-> "get_kernels", a |-> NULL] >>

---------------------------------------------------------------------------
(* extlinux remove_kernel *)

\* A remove_kernel step returns success and changes neither the queue nor
\* the config files nor anything else the backend keeps.
RemoveKernelChangesNothing ==
    (last'.op = "remove_kernel") =>
        /\ ~crashed' /\ last'.ret = TRUE
        /\ kernel_queue' = kernel_queue
        /\ files' = files
        /\ extlinux_cmd' = extlinux_cmd /\ base_path' = base_path
        /\ ev' = << >>

\* A set_default_kernel right after the remove_kernel of a queued kernel
\* writes a stanza for that kernel.
RemovedKernelReappears ==
    ( /\ last.op = "remove_kernel"
      /\ Queued(kernel_queue.arr, last.arg.source_path)
      /\ last'.op = "set_default_kernel" /\ ~crashed' /\ last'.ret = TRUE )
    => \E i \in 1..Len(Config') : Config'[i] = "LABEL " \o last.arg.legacy_path

\* C26: extlinux remove_kernel(K) always returns success and leaves the
\* kernel queue and the config file unchanged, so that after install_kernel(K)
\* and remove_kernel(K) without a re-init the next set_default_kernel
\* still emits a stanza for K.
C26_RemoveKernelNoOp == [][RemoveKernelChangesNothing /\ RemovedKernelReappears]_vars

\* remove_kernel of the kernel queued second, with a config on disk: it is
\* still queued
C26_Witness ==
    /\ last.op = "remove_kernel" /\ ~crashed /\ last.ret = TRUE
    /\ Len(kernel_queue.arr) = 2
    /\ kernel_queue.arr[2].source_path = last.arg.source_path
    /\ base_path # NULL /\ Len(Config) > 0

---------------------------------------------------------------------------
(* The map after boot_manager_enumerate_initrds_freestanding *)

\* boot_manager_enumerate_initrds_freestanding has just returned true
Enumerated ==
    last.op = "enumerate_initrds_freestanding" /\ ~crashed /\ last.ret = TRUE

\* The entries of the map
MapEntries == { initrd_freestanding[i] : i \in 1..Len(initrd_freestanding) }

\* The entries the freestanding directory stands for: one per regular file
\* that is not empty, none when the directory is missing
DirEntries ==
    { [key |-> FreestandingKey(n), val |-> n] :
        n \in { m \in SrcNames : /\ initrds.exists
                                /\ initrds.ents[m].kind = "reg"
                                /\ initrds.ents[m].data # 0 } }

\* C27: after boot_manager_enumerate_initrds_freestanding returned true the
\* map holds exactly one entry freestanding-<name> -> <name> for each regular,
\* non-empty file now in the freestanding directory and no other entry,
\* whatever enumerations, additions and removals of files came before.
C27_MapReflectsDirectory ==
    Enumerated =>
        /\ MapEntries = DirEntries
        /\ Len(initrd_freestanding) = Cardinality(DirEntries)

\* What the code does: the map has one entry for each such file, and keeps
\* the entries of earlier enumerations.
MapCoversDirectory ==
    /\ Enumerated =>
          /\ DirEntries \subseteq MapEntries
          /\ Len(initrd_freestanding) = Cardinality(MapEntries)
    /\ \A e \in MapEntries : e.val \in SrcNames /\ e.key = FreestandingKey(e.val)

\* An enumeration after the only file was taken out of the directory left
\* its entry in the map.
StaleEntryKept ==
    /\ Enumerated
    /\ DirEntries = {}
    /\ MapEntries # {}

---------------------------------------------------------------------------
(* What boot_manager_remove_initrd_freestanding removes *)

\* The names that begin with freestanding-
PrefixedNames == { FreestandingKey(b) : b \in BaseNames }

\* The keys of the map
MapKeys == { initrd_freestanding[i].key : i \in 1..Len(initrd_freestanding) }

\* The entries of the boot partition that differ between two of its states
Changed(before, after) ==
    { <<d, n>> \in TargetDirs \X TgtNames : after[d].ents[n] # before[d].ents[n] }

\* The selected backend is a UEFI one that names no kernel destination
UefiWithoutDestination ==
    /\ bootloader \notin {NULL, "extlinux"}
    /\ CAP_UEFI \in host.caps[bootloader]
    /\ host.kernel_dst = NULL

\* A remove step takes out only entries of the directory it listed that begin
\* with freestanding- and are no key of the map, one unlink each, and changes
\* nothing else.
RemovesOnlyOrphans ==
    (last'.op = "remove_initrd_freestanding") =>
        /\ \A c \in Changed(bootfs, bootfs') :
             /\ bootfs'[c[1]].ents[c[2]] = Absent
             /\ c[2] \in PrefixedNames
             /\ c[2] \notin MapKeys
             /\ \E i \in Positions(ev', "opendir") : ev'[i].a = c[1]
        /\ \A i \in Positions(ev', "unlink") :
             ev'[i].a.name \in PrefixedNames \ MapKeys
        /\ \A d \in TargetDirs : bootfs'[d].exists = bootfs[d].exists
        /\ initrd_freestanding' = initrd_freestanding
        /\ initrds' = initrds

\* With an empty map and no freestanding- entry anywhere, nothing is removed.
NothingToRemove ==
    ( /\ last'.op = "remove_initrd_freestanding"
      /\ initrd_freestanding = << >>
      /\ \A d \in TargetDirs, n \in PrefixedNames : bootfs[d].ents[n].kind = "none" )
    => bootfs' = bootfs /\ Count(ev', "unlink") = 0

\* A target directory that cannot be listed, or a UEFI backend without a
\* kernel destination, makes the call fail with nothing removed.
FailsWithoutTarget ==
    ( /\ last'.op = "remove_initrd_freestanding" /\ ~crashed'
      /\ (Count(ev', "opendir") = 0 \/ UefiWithoutDestination) )
    => /\ last'.ret = FALSE
       /\ bootfs' = bootfs
       /\ Count(ev', "unlink") = 0 /\ Count(ev', "opendir") = 0

\* C28: boot_manager_remove_initrd_freestanding unlinks only entries of the
\* target directory whose name begins with freestanding- and which are not
\* keys of the map; files without the prefix and files named by a key are
\* never removed; with an empty map and no freestanding- file nothing is
\* removed; a missing target directory, or a UEFI backend without a kernel
\* destination, makes the call fail with nothing removed.
C28_RemovesOnlyOrphans ==
    [][RemovesOnlyOrphans /\ NothingToRemove /\ FailsWithoutTarget]_vars

\* A remove on the legacy host took the orphan out of /boot and left the
\* kernel and the initrd named by a key of the map.
C28_Witness ==
    /\ RemoveSucceeded
    /\ bootloader = "extlinux"
    /\ Count(ev, "unlink") = 1
    /\ bootfs["/boot"].ents[FreestandingKey("old.img")].kind = "none"
    /\ bootfs["/boot"].ents["kernel-1"].kind = "reg"
    /\ \E k \in MapKeys : bootfs["/boot"].ents[k].kind = "reg"

\* A remove on a UEFI backend without a kernel destination, with an orphan
\* in /boot: it failed.
RemoveWithoutDestination ==
    /\ last.op = "remove_initrd_freestanding" /\ ~crashed
    /\ UefiWithoutDestination
    /\ last.ret = FALSE
    /\ bootfs["/boot"].ents[FreestandingKey("old.img")].kind # "none"

---------------------------------------------------------------------------
(* The mounts mount_boot leaves behind when it fails *)

\* mount_boot returned -1 to the call recorded in the events t
MountBootFailed(t) == \E m \in Positions(t, "mount_boot") : t[m].a.ret < 0

\* C29: whenever mount_boot returns -1 it leaves no mount behind: a mount it
\* made in that call is undone before it returns, also when the
\* re-initialisation of the backend after the mount fails.
C29_FailedMountLeavesNone ==
    [][ ( /\ last'.op \in {"set_default_kernel", "list_kernels"}
          /\ MountBootFailed(ev') )
        => mounts' = mounts ]_vars

\* What the code does: a mount_boot that returned -1 made no mount, or made
\* one and left it because the re-initialisation of the backend failed.
FailedMountLeftByReinit ==
    [][ ( /\ last'.op \in {"set_default_kernel", "list_kernels"}
          /\ MountBootFailed(ev')
          /\ mounts' # mounts )
        => /\ Count(ev', "mount") = 1 /\ Count(ev', "umount") = 0
           /\ \E i \in Positions(ev', "init") :
                 \E j \in Positions(ev', "mount") : j < i
           /\ ~gen_inited' ]_vars

\* mount_boot mounted the boot device, the backend did not come up again,
\* and the call returned with the device still mounted.
MountLeftBehind ==
    /\ last.op \in {"set_default_kernel", "list_kernels"} /\ ~crashed
    /\ MountBootFailed(ev)
    /\ Count(ev, "mount") = 1 /\ Count(ev, "umount") = 0
    /\ \E d \in BootDirs : mounts[d] # NULL

---------------------------------------------------------------------------
(* The state of the backend the facade holds *)

\* C30: whenever the facade holds a selected backend after an operation
\* returns, that backend is initialized: its last lifecycle call was an init
\* that succeeded, also after set_prefix or set_boot_dir returned false
\* because the init failed, so no later operation runs on a destroyed
\* backend.
C30_SelectedBackendInitialized ==
    (bootloader # NULL /\ ~crashed) => BackendInitialized(World)

\* What the code does: an operation leaves a selected backend destroyed only
\* when it called the backend's init, the init failed, and the destroy that
\* followed was the last lifecycle call; the backend stays selected.
DestroyedByFailedInit ==
    [][ ( /\ bootloader' # NULL /\ ~crashed' /\ ~gen_inited'
          /\ (bootloader = NULL \/ gen_inited) )
        => /\ Count(ev', "init") >= 1
           /\ \E d \in Positions(ev', "destroy") :
                 \A i \in Positions(ev', "init") : i < d
           /\ last'.op \in {"set_prefix", "set_boot_dir", "modify_bootloader",
                             "set_default_kernel", "list_kernels"} ]_vars

\* set_prefix returned false because the init of the selected backend failed,
\* and the facade still holds that backend, destroyed.
DestroyedBackendSelected ==
    /\ last.op = "set_prefix" /\ last.ret = FALSE /\ ~crashed
    /\ bootloader # NULL /\ ~BackendInitialized(World)

\* install_kernel passed the facade's tests and called the backend while the
\* backend was destroyed.
DestroyedBackendInstalls ==
    /\ last.op = "install_kernel" /\ ~crashed
    /\ bootloader # NULL /\ ~BackendInitialized(World)
    /\ Count(ev, "install_kernel") = 1

---------------------------------------------------------------------------
(* The boot directory after a change of prefix *)

\* The boot directory derived from the prefix of W: the prefix and
\* BOOT_DIRECTORY, resolved; what boot_manager_get_boot_dir answers when no
\* override is stored.
DerivedBootDir(W) == boot_manager_get_boot_dir([W EXCEPT !.abs_bootdir = NULL]).r

\* set_prefix has just returned true
PrefixSet == last.op = "set_prefix" /\ ~crashed /\ last.ret = TRUE

\* C31: after a successful set_prefix(P), get_boot_dir returns the boot
\* directory derived from P until the caller calls set_boot_dir: an override
\* stored earlier, by the caller or as a side effect of modify_bootloader or
\* mount_boot, does not survive the change of prefix.
C31_PrefixResetsBootDir ==
    PrefixSet => boot_manager_get_boot_dir(World).r = DerivedBootDir(World)

\* What the code does: set_prefix leaves the stored override as it was, on
\* success and on failure, and get_boot_dir answers the override whenever
\* one is stored.
PrefixKeepsOverride ==
    /\ [][ last'.op = "set_prefix" => abs_bootdir' = abs_bootdir ]_vars
    /\ [][ (last'.op = "set_prefix" /\ ~crashed' /\ last'.ret = TRUE
              /\ abs_bootdir # NULL)
           => boot_manager_get_boot_dir(World)'.r = abs_bootdir ]_vars

\* set_prefix returned true, the backend is initialized, and get_boot_dir
\* answers the mount point an earlier mount_boot stored, not the boot
\* directory of the prefix.
OverrideSurvivesPrefix ==
    /\ PrefixSet
    /\ bootloader # NULL /\ BackendInitialized(World)
    /\ abs_bootdir = "/mnt/esp"
    /\ DerivedBootDir(World) = "/boot"
    /\ boot_manager_get_boot_dir(World).r = "/mnt/esp"

---------------------------------------------------------------------------
(* The selector on legacy hosts *)

\* The selection ran for a mask that holds LEGACY, the extlinux binary is
\* executable under the prefix, and no backend registered before extlinux
\* holds the mask.
LegacyLeftToExtlinux ==
    /\ Selected
    /\ CAP_LEGACY \in sysconfig.wanted_boot_mask
    /\ host.extlinux_x
    /\ \A n \in {"grub2", "systemd"} :
          (host.caps[n] \cap sysconfig.wanted_boot_mask) # sysconfig.wanted_boot_mask

\* C32: for every mask of cbm_inspect_root that holds LEGACY, alone or with
\* GPT and the capability of the probed filesystem, if the extlinux binary
\* is executable under the prefix and no earlier backend of the registry
\* matches, boot_manager_select_bootloader selects extlinux.
C32_LegacySelectsExtlinux ==
    LegacyLeftToExtlinux => bootloader = "extlinux"

\* What the code does: extlinux reports GPT and LEGACY and no filesystem
\* capability, so it is selected exactly when the mask holds no filesystem
\* bit; with EXTFS or FATFS in the mask the selection fails and no backend
\* is selected.
LegacySelectedWithoutFsBit ==
    LegacyLeftToExtlinux =>
        IF FsBits(sysconfig.wanted_boot_mask) = {}
        THEN bootloader = "extlinux"
        ELSE /\ bootloader = NULL
             /\ last.ret = FALSE
             /\ Len(Scan) = Len(bootman_known_loaders)
             /\ Scan[3].a = [loader |-> "extlinux", caps |-> {CAP_GPT, CAP_LEGACY}]

\* A legacy host with an ext4 boot partition and an executable extlinux:
\* the mask is LEGACY, GPT and EXTFS, extlinux was asked, and the selection
\* failed.
LegacyExtfsNotSelected ==
    /\ LegacyLeftToExtlinux
    /\ sysconfig.wanted_boot_mask = {CAP_LEGACY, CAP_GPT, CAP_EXTFS}
    /\ Len(Scan) = 3
    /\ bootloader = NULL
    /\ last.ret = FALSE

\* A legacy host without a boot partition: the mask is LEGACY alone and
\* extlinux is selected.
LegacyAloneSelected ==
    /\ LegacyLeftToExtlinux
    /\ sysconfig.wanted_boot_mask = {CAP_LEGACY}
    /\ bootloader = "extlinux"

---------------------------------------------------------------------------
(* The extlinux queue under the operations of the facade *)

\* The facade of a legacy host that selected extlinux, driven by its public
\* operations after the init that ends boot_manager_set_prefix.
NextExtlinuxQueue ==
    \/ XInit
    \/ InstallKernel
    \/ SetBootDir
    \/ XModifyBootloader
    \/ SetDefaultKernel

SpecExtlinuxQueue == InitExtlinux /\ [][NextExtlinuxQueue]_vars

\* Every kernel of the queue before is in the queue after
StillQueued(before, after) ==
    \A i \in 1..Len(before.arr) :
        \E j \in 1..Len(after.arr) : after.arr[j] = before.arr[i]

\* C33: a kernel queued by install_kernel stays in the extlinux queue until
\* the next synthesis by set_default_kernel: no operation of the facade
\* other than set_prefix, in particular not modify_bootloader and not
\* set_boot_dir, takes a kernel off the queue.
C33_QueueKeptUntilSynthesis ==
    [][ ( /\ last'.op \in {"install_kernel", "set_boot_dir", "modify_bootloader",
                             "set_default_kernel"}
          /\ ~crashed' )
        => StillQueued(kernel_queue, kernel_queue') ]_vars

\* What the code does: install_kernel and set_default_kernel keep the queue;
\* set_boot_dir, and modify_bootloader through it, destroy the backend and
\* initialize it again whenever a backend is selected, and the queue after
\* that is empty.
ReinitEmptiesQueue ==
    [][ ~crashed' =>
          /\ last'.op \in {"install_kernel", "set_default_kernel"}
                => StillQueued(kernel_queue, kernel_queue')
          /\ ( /\ last'.op \in {"set_boot_dir", "modify_bootloader"}
               /\ Count(ev', "init") >= 1 )
                => kernel_queue'.arr = << >> ]_vars

\* modify_bootloader ran its action on an initialized backend whose queue is
\* empty, after the destroy and the init of its set_boot_dir.
QueueEmptyAfterModify ==
    /\ last.op = "modify_bootloader" /\ ~crashed /\ last.ret = TRUE
    /\ Count(ev, "destroy") = 1 /\ Count(ev, "init") = 1
    /\ ~kernel_queue.null /\ kernel_queue.arr = << >>

\* set_default_kernel synthesized a configuration without any stanza from a
\* queue that is empty.
SynthesizedFromEmptyQueue ==
    /\ last.op = "set_default_kernel" /\ ~crashed
    /\ Count(ev, "synthesized") = 1
    /\ ~kernel_queue.null /\ kernel_queue.arr = << >>

---------------------------------------------------------------------------
(* The reconciler under a boot directory the caller set *)

\* The boot device is mounted on /mnt/esp, the caller made that the boot
\* directory, and boot_manager_copy_initrd_freestanding copied an initrd
\* there.
CopiedToEsp ==
    /\ last.op = "copy_initrd_freestanding" /\ ~crashed /\ last.ret = TRUE
    /\ abs_bootdir = "/mnt/esp"
    /\ Count(ev, "copy_file_atomic") >= 1
    /\ \E i \in 1..Len(initrd_freestanding) :
          bootfs["/mnt/esp"].ents[initrd_freestanding[i].key].kind = "reg"

\* boot_manager_remove_initrd_freestanding listed /mnt/esp.
RemovedFromEsp ==
    /\ last.op = "remove_initrd_freestanding" /\ ~crashed /\ last.ret = TRUE
    /\ Count(ev, "opendir") = 1
    /\ ListedDir = "/mnt/esp"

\* The boot directory is the unresolved //boot, and
\* boot_manager_copy_initrd_freestanding copied an initrd into /boot.
CopiedThroughDoubleSlash ==
    /\ last.op = "copy_initrd_freestanding" /\ ~crashed /\ last.ret = TRUE
    /\ abs_bootdir = "/" \o BOOT_DIRECTORY
    /\ \E i \in Positions(ev, "copy_file_atomic") : ev[i].a.dir = "/boot"

\* The boot directory is the unresolved //boot, and
\* boot_manager_remove_initrd_freestanding unlinked an orphan of /boot.
RemovedThroughDoubleSlash ==
    /\ last.op = "remove_initrd_freestanding" /\ ~crashed /\ last.ret = TRUE
    /\ abs_bootdir = "/" \o BOOT_DIRECTORY
    /\ ListedDir = "/boot"
    /\ Count(ev, "unlink") >= 1

=============================================================================
